---- MODULE Spec2Model ----
(***************************************************************************)
(* A model of nix-concierge: main (src/src/main.rs), the deployment        *)
(* orchestrator deploy_nix_configuration with its helpers                  *)
(* (src/src/deploy.rs), install_nix (src/src/nix.rs) and Settings          *)
(* (src/src/settings.rs).                                                  *)
(*                                                                         *)
(* A directory tree is a function from paths to nodes.  A path is a        *)
(* sequence of names relative to the root of the tree, the root <<>>       *)
(* being a directory that always exists.  The text of a file is a sequence *)
(* of symbols: LF, CR, the marker prefix "# TAGGED:" (one symbol) and      *)
(* ordinary text.                                                          *)
(***************************************************************************)
EXTENDS Integers, Sequences, FiniteSets, TLC

VARIABLES
    pc,               \* position of the invocation in main / deploy_nix_configuration
    entry,            \* the function the invocation entered: main or deploy_nix_configuration
    args,             \* the parsed command line (struct Args)
    settings,         \* the Settings record handed to deploy_nix_configuration
    os,               \* what os_version::detect() answers on this machine
    nixInstalled,     \* whether `nix --version` succeeds
    repoStatus,       \* relation of the source repository to its remote
    config,           \* the tree under settings.config_path
    install,          \* the tree under settings.install_path
    deployment_time,  \* deploy.rs:29
    todo,             \* docker-compose.yml files the converter loop has yet to visit
    trace,            \* the orchestrator steps entered so far, oldest first
    calls,            \* the external commands spawned so far, oldest first
    fileops,          \* the Backup and Tag operations performed so far, oldest first
    error,            \* the outermost context of the error the invocation ended with
    orig,             \* bookkeeping: config before the invocation, or before the last file operation
    orig_install      \* bookkeeping: install before the invocation

vars == <<pc, entry, args, settings, os, nixInstalled, repoStatus, config, install,
          deployment_time, todo, trace, calls, fileops, error, orig, orig_install>>

-----------------------------------------------------------------------------
(* Bounds of the model.                                                    *)

MaxLen == 3       \* longest initial text of the file in SpecTag, in symbols
MaxTags == 2      \* most tag_file_content calls in a row in SpecTag
MaxBackupOps == 3 \* most backup_file calls and edits in a row in SpecBackup
MaxTime == 1      \* timestamps are 0..MaxTime

Timestamps == 0..MaxTime

-----------------------------------------------------------------------------
(* Text.                                                                   *)

LF == "\n"
CR == "\r"
TagPrefix == "# TAGGED:"

Symbols == {"a", "b", LF, CR, TagPrefix}

RECURSIVE SeqsUpTo(_, _)
SeqsUpTo(S, n) ==
    IF n = 0 THEN {<<>>}
    ELSE LET shorter == SeqsUpTo(S, n - 1)
         IN  shorter \cup {Append(s, x) : s \in {t \in shorter : Len(t) = n - 1}, x \in S}

\* chrono's DateTime::to_rfc3339, on the instants of the model
to_rfc3339(t) == "2023-06-16T11:12:0" \o ToString(t) \o "+00:00"

\* str::lines: lines end at LF or CR LF; the ending is not part of the line; a
\* last line without ending is a line; an empty text has no lines
RECURSIVE SplitInclusive(_)
SplitInclusive(text) ==
    IF text = <<>> THEN <<>>
    ELSE IF \E i \in 1..Len(text) : text[i] = LF
         THEN LET i == CHOOSE k \in 1..Len(text) :
                          text[k] = LF /\ \A j \in 1..(k - 1) : text[j] # LF
              IN  <<SubSeq(text, 1, i)>> \o SplitInclusive(SubSeq(text, i + 1, Len(text)))
         ELSE <<text>>

StripLineEnding(piece) ==
    IF piece # <<>> /\ piece[Len(piece)] = LF
    THEN LET l == SubSeq(piece, 1, Len(piece) - 1)
         IN  IF l # <<>> /\ l[Len(l)] = CR THEN SubSeq(l, 1, Len(l) - 1) ELSE l
    ELSE piece

Lines(text) ==
    LET pieces == SplitInclusive(text)
    IN  [i \in 1..Len(pieces) |-> StripLineEnding(pieces[i])]

\* [String]::join
RECURSIVE Join(_, _)
Join(lines, sep) ==
    IF lines = <<>> THEN <<>>
    ELSE IF Len(lines) = 1 THEN lines[1]
         ELSE lines[1] \o <<sep>> \o Join(Tail(lines), sep)

StartsWithTag(line) == line # <<>> /\ line[1] = TagPrefix

\* deploy.rs:456-459: .filter(|s| !s.starts_with("# TAGGED:"))
RECURSIVE FilterUntagged(_)
FilterUntagged(lines) ==
    IF lines = <<>> THEN <<>>
    ELSE (IF StartsWithTag(lines[1]) THEN <<>> ELSE <<lines[1]>>)
         \o FilterUntagged(Tail(lines))

\* format!("# TAGGED: {}", timestamp.to_rfc3339())
TagLine(t) == <<TagPrefix, " " \o to_rfc3339(t)>>

\* deploy.rs:449-467: the text tag_file_content writes back
TaggedText(text, t) ==
    Join(Append(FilterUntagged(Lines(text)), TagLine(t)), LF)

-----------------------------------------------------------------------------
(* Directory trees.                                                        *)

Dir == [kind |-> "dir", data |-> <<>>]
File(text) == [kind |-> "file", data |-> text]

EmptyTree == [p \in {<<>>} |-> Dir]

Exists(tree, p) == p \in DOMAIN tree                       \* Path::exists
IsFile(tree, p) == p \in DOMAIN tree /\ tree[p].kind = "file"
IsDir(tree, p) == p \in DOMAIN tree /\ tree[p].kind = "dir"

Parent(p) == SubSeq(p, 1, Len(p) - 1)                       \* Path::parent
FileName(p) == p[Len(p)]                                    \* Path::file_name
Join2(p, name) == Append(p, name)                           \* Path::join

Put(tree, p, node) ==
    [q \in DOMAIN tree \cup {p} |-> IF q = p THEN node ELSE tree[q]]

Ok(tree) == [ok |-> TRUE, tree |-> tree, err |-> ""]
Err(tree, msg) == [ok |-> FALSE, tree |-> tree, err |-> msg]

\* std::fs::create_dir_all: fails when a prefix of the path is a regular file
create_dir_all(tree, dir) ==
    IF \E k \in 1..Len(dir) : IsFile(tree, SubSeq(dir, 1, k))
    THEN Err(tree, "Failed to create backup dir")
    ELSE Ok([q \in DOMAIN tree \cup {SubSeq(dir, 1, k) : k \in 1..Len(dir)} |->
                IF q \in DOMAIN tree THEN tree[q] ELSE Dir])

\* a copy that creates the destination and writes nothing into it
fs_copy_empty(tree, from, to) ==
    IF ~IsFile(tree, from) \/ ~IsDir(tree, Parent(to)) \/ IsDir(tree, to)
    THEN Err(tree, "Failed to copy file")
    ELSE Ok(Put(tree, to, File(<<>>)))

\* std::fs::copy: the source must be a regular file; an existing regular file
\* at the destination is truncated and rewritten; a directory there is an error
fs_copy(tree, from, to) ==
    IF ~IsFile(tree, from) \/ ~IsDir(tree, Parent(to)) \/ IsDir(tree, to)
    THEN Err(tree, "Failed to copy file")
    ELSE Ok(Put(tree, to, File(tree[from].data)))

BackupDirName == ".concierge-backup"

\* deploy.rs:500: format!("{}-{}", filename, dt.to_rfc3339())
BackupFileName(file_path, dt) == FileName(file_path) \o "-" \o to_rfc3339(dt)

BackupFilePath(file_path, dt) ==
    Join2(Join2(Parent(file_path), BackupDirName), BackupFileName(file_path, dt))

\* deploy.rs:486-518
backup_file(tree, file_path, dt) ==
    IF file_path = <<>>
    THEN Err(tree, "Failed to get parent dir")
    ELSE LET made == create_dir_all(tree, Join2(Parent(file_path), BackupDirName))
         IN  IF ~made.ok THEN made
             ELSE fs_copy(made.tree, file_path, BackupFilePath(file_path, dt))

\* deploy.rs:520-525
path_is_file(tree, path) ==
    IF ~Exists(tree, path) THEN [ok |-> FALSE, value |-> FALSE]
    ELSE [ok |-> TRUE, value |-> tree[path].kind = "file"]

tag_file_content(tree, path, timestamp) ==
    LET isf == path_is_file(tree, path)
    IN  IF ~isf.ok THEN Err(tree, "Failed to get metadata of file")
        ELSE IF ~isf.value
        THEN Err(tree, "Failed to write re-evaluation timestamp, path is not a file")
        ELSE Ok(Put(tree, path, File(TaggedText(tree[path].data, timestamp))))

FileOp(op, path, t, ok) == [op |-> op, path |-> path, t |-> t, ok |-> ok]

-----------------------------------------------------------------------------
(* The machine and the command line.                                       *)

None == [some |-> FALSE, name |-> ""]
Some(n) == [some |-> TRUE, name |-> n]

InputNames == {"nixpkgs"}
OptInputs == {None} \cup {Some(n) : n \in InputNames}

\* os_version::detect(): Linux with distro nixos, another Linux, macOS, another
\* system, or an error
OsAnswers == {"nixos", "linux", "macos", "other", "undetected"}

RepoStatuses == {"Ahead", "Behind", "Same", "Complex"}      \* git.rs:77-82

\* how a spawned child can end: exit code 0, another exit code, a signal, or
\* the spawn itself failing
Outcomes == {"exit0", "exit1", "signal", "nospawn"}

Hostname == "thishost"
ConfigPath == "/home/user/.config/nix"                      \* settings.rs:18

ArgsSet == [force_eval : BOOLEAN, update : BOOLEAN, fallback : BOOLEAN,
            show_trace : BOOLEAN, update_input : OptInputs]

\* settings.rs:21-24
InstallPathFor(o) == IF o = "nixos" THEN "/etc/nixos" ELSE "/etc/nix-config"

\* settings.rs:50-52: Settings::flake_file, relative to config_path
FlakeNix == <<"flake.nix">>

\* main.rs:71 and deploy.rs:32: settings.flake_file().exists()
ManifestPresent(tree) == Exists(tree, FlakeNix)

\* settings.rs:31
sync_exclusions == <<".gitignore", ".stfolder", ".git", ".concierge-backup">>

\* settings.rs:17-36: Settings::new on a machine whose system is o
SettingsNew(o) ==
    [force_evaluation |-> FALSE, update |-> FALSE, show_trace |-> FALSE,
     fallback |-> FALSE, update_input |-> None, install_path |-> InstallPathFor(o)]

\* main.rs:53-67: the setters main calls for the flags given
ApplyFlags(st, a) ==
    [st EXCEPT !.force_evaluation = a.force_eval,
               !.update = a.update,
               !.fallback = a.fallback,
               !.show_trace = a.show_trace]

SettingsSet ==
    [force_evaluation : BOOLEAN, update : BOOLEAN, show_trace : BOOLEAN,
     fallback : BOOLEAN, update_input : OptInputs,
     install_path : {"/etc/nixos", "/etc/nix-config"}]

-----------------------------------------------------------------------------
(* External commands.                                                      *)

CmdOk == [ok |-> TRUE, err |-> ""]
CmdErr(msg) == [ok |-> FALSE, err |-> msg]

\* deploy.rs:388-435 and 328-386: what realtime_command and
\* realtime_command_in_dir return for each way the child can end
realtime_command(outcome) ==
    CASE outcome = "nospawn" -> CmdErr("Error spawning process")
      [] outcome = "exit0" -> CmdOk
      [] outcome = "exit1" -> CmdErr("failed with return code")
      [] outcome = "signal" -> CmdErr("was terminated by signal")

Call(step, cmd, cargs, dir, outcome) ==
    [step |-> step, cmd |-> cmd, args |-> cargs, dir |-> dir, outcome |-> outcome]

RECURSIVE FoldConcat(_, _, _)
FoldConcat(items, before, after) ==
    IF items = <<>> THEN ""
    ELSE before \o items[1] \o after \o FoldConcat(Tail(items), before, after)

\* deploy.rs:177-196: the command line rsync() hands to nix-shell --run
RsyncCommand(source, destination, exclusions, params, sudo) ==
    LET exclusions_string == FoldConcat(exclusions, " --exclude='", "'")
        extra_params_string == FoldConcat(params, " ", "")
        rsync_command == "rsync " \o extra_params_string \o " " \o exclusions_string
                             \o " " \o source \o "/ " \o destination \o "/"
    IN  IF sudo THEN "sudo " \o rsync_command ELSE rsync_command

RsyncCall(step, source, destination, exclusions, params, outcome) ==
    Call(step, "nix-shell",
         <<"-p", "rsync", "--run",
           RsyncCommand(source, destination, exclusions, params, TRUE)>>,
         "", outcome)

ToInstallParams == <<"-ahi">>                                               \* deploy.rs:76
SyncBackParams == <<"-aim", "--include='*.lock'", "--include='*/'">>        \* deploy.rs:150
SyncBackExclusions == <<"*">>                                               \* deploy.rs:149

SeqRange(sq) == {sq[i] : i \in 1..Len(sq)}

\* rsync's --exclude=NAME: a path is left out when one of its components
\* carries an excluded name
Excluded(p, exclusions) == \E i \in 1..Len(p) : p[i] \in SeqRange(exclusions)

\* what stands before a suffix in the file names of the model
Stems == {"", "flake", "dep", "index", "flake.lock", "dep.lock"}

\* rsync's pattern *.lock on one path component: any characters, then .lock
MatchesLockPattern(name) == \E stem \in Stems : name = stem \o ".lock"

\* a transfer that also deletes what the source did not send (--delete)
RsyncIntoMirror(source, destination, sent) ==
    [q \in {<<>>} \cup sent |-> IF q \in sent THEN source[q] ELSE destination[q]]

\* what rsync -a copies: every path of the source the filter lets through, with
\* the directories above it; nothing of the destination is deleted
RsyncInto(source, destination, sent) ==
    [q \in DOMAIN destination \cup sent |->
        IF q \in sent THEN source[q] ELSE destination[q]]

\* a transfer that leaves the exclusions out
SentToInstallUnfiltered(source, p) == TRUE

\* deploy.rs:72-78: -ahi with the exclusions of the settings
SentToInstall(source, p) == ~Excluded(p, sync_exclusions)

\* a transfer back whose filter lets only directories through
SentBackDirsOnly(source, p) == IsDir(source, p)

\* a transfer back without the filter rules
SentBackUnfiltered(source, p) == TRUE

\* deploy.rs:146-152: -aim --include='*.lock' --include='*/' --exclude='*':
\* the lock files and the directories that lead to one
SentBack(source, p) ==
    \/ IsFile(source, p) /\ MatchesLockPattern(FileName(p))
    \/ /\ IsDir(source, p)
       /\ \E q \in DOMAIN source :
              /\ Len(q) > Len(p) /\ SubSeq(q, 1, Len(p)) = p
              /\ IsFile(source, q) /\ MatchesLockPattern(FileName(q))

SyncToInstallTree(source, destination) ==
    RsyncInto(source, destination,
              {p \in DOMAIN source : p # <<>> /\ SentToInstall(source, p)})

SyncBackTree(source, destination) ==
    RsyncInto(source, destination,
              {p \in DOMAIN source : p # <<>> /\ SentBack(source, p)})

LockV1 == <<"locked: 1">>
LockV2 == <<"locked: 2">>
FlakeLock == <<"flake.lock">>

\* the builder's dependency refresh rewrites the lock file of the flake
Relock(tree) == Put(tree, FlakeLock, File(LockV2))

\* the builder writes a lock file into a flake that has none
LockIfMissing(tree) == IF Exists(tree, FlakeLock) THEN tree ELSE Put(tree, FlakeLock, File(LockV1))

\* compose2nix writes docker-compose.nix beside the docker-compose.yml
Converted(tree, dir) == Put(tree, Join2(dir, "docker-compose.nix"), File(<<"nix">>))

-----------------------------------------------------------------------------
(* File discovery.                                                         *)

Children(tree, root) == {p \in DOMAIN tree : Len(p) = Len(root) + 1 /\ Parent(p) = root}

\* deploy.rs:303-316: the loop over fs::read_dir(root)
RECURSIVE FilesBelow(_, _, _)
FilesBelow(tree, root, name) ==
    UNION {IF IsDir(tree, p) THEN FilesBelow(tree, p, name)
           ELSE IF IsFile(tree, p) /\ FileName(p) = name THEN {p} ELSE {} :
           p \in Children(tree, root)}

\* deploy.rs:297-319: fs::read_dir(root)? fails when root is no directory
search_files_with_name(tree, root, name) ==
    IF IsDir(tree, root) THEN [ok |-> TRUE, files |-> FilesBelow(tree, root, name)]
    ELSE [ok |-> FALSE, files |-> {}]

\* the orders in which read_dir may hand over a set of paths
Orders(S) ==
    {f \in [1..Cardinality(S) -> S] : \A i, j \in 1..Cardinality(S) : f[i] = f[j] => i = j}

-----------------------------------------------------------------------------
(* Values of the variables an operation under test leaves alone.           *)

NoArgs == [force_eval |-> FALSE, update |-> FALSE, fallback |-> FALSE,
           show_trace |-> FALSE, update_input |-> None]

NoSettings == SettingsNew("nixos")

Idle ==
    /\ pc = "idle"
    /\ args = NoArgs
    /\ settings = NoSettings
    /\ os = "nixos"
    /\ entry = "none"
    /\ nixInstalled = TRUE
    /\ repoStatus = "Same"
    /\ install = EmptyTree
    /\ deployment_time = 0
    /\ todo = <<>>
    /\ trace = <<>>
    /\ calls = <<>>
    /\ error = <<>>
    /\ orig_install = EmptyTree

-----------------------------------------------------------------------------
(* Spec: one invocation, entered at main or at deploy_nix_configuration.   *)

OtherHost == "otherhost"
ComposeName == "docker-compose.yml"
HostDir == <<"systems", Hostname>>

\* str::split_whitespace on the text of a .compose2nix file
RECURSIVE split_whitespace(_, _)
split_whitespace(text, word) ==
    IF text = <<>> THEN (IF word = "" THEN <<>> ELSE <<word>>)
    ELSE IF Head(text) \in {" ", LF, CR}
         THEN (IF word = "" THEN <<>> ELSE <<word>>) \o split_whitespace(Tail(text), "")
         ELSE split_whitespace(Tail(text), word \o Head(text))

CustomCommand == <<"echo", " ", "converted", LF>>

PutAll(tree, nodes) ==
    [q \in DOMAIN tree \cup DOMAIN nodes |-> IF q \in DOMAIN nodes THEN nodes[q] ELSE tree[q]]

FlakeKinds == {"none", "file", "tagged", "dir", "blocked"}
SystemsKinds == {"none", "empty", "one", "two"}

\* the source trees of the model: with or without flake.nix (a regular file, a
\* directory, or a file beside a regular file named .concierge-backup), and with
\* no, an empty or a populated systems/<hostname> directory
SourceTree(flake, systems) ==
    LET git == (<<".git">> :> Dir) @@ (<<".git", "HEAD">> :> File(<<"ref">>))
        fl == CASE flake = "file" ->
                       (FlakeNix :> File(<<"a">>)) @@ (FlakeLock :> File(LockV1))
                [] flake = "tagged" ->
                       (FlakeNix :> File(<<"a", LF, TagPrefix, " old">>))
                           @@ (FlakeLock :> File(LockV1))
                [] flake = "dir" -> (FlakeNix :> Dir)
                [] flake = "blocked" ->
                       (FlakeNix :> File(<<"a">>)) @@ (<<BackupDirName>> :> File(<<"x">>))
                [] OTHER -> << >>
        other == (<<"systems">> :> Dir) @@ (<<"systems", OtherHost>> :> Dir)
                     @@ (<<"systems", OtherHost, "app">> :> Dir)
                     @@ (<<"systems", OtherHost, "app", ComposeName>> :> File(<<"b">>))
        web == (Join2(HostDir, "web") :> Dir)
                   @@ (Join2(Join2(HostDir, "web"), ComposeName) :> File(<<"b">>))
        db == (Join2(HostDir, "db") :> Dir)
                  @@ (Join2(Join2(HostDir, "db"), ComposeName) :> File(<<"b", LF>>))
                  @@ (Join2(Join2(HostDir, "db"), ".compose2nix") :> File(CustomCommand))
        sy == CASE systems = "empty" -> other @@ (HostDir :> Dir)
                [] systems = "one" -> other @@ (HostDir :> Dir) @@ web
                [] systems = "two" -> other @@ (HostDir :> Dir) @@ web @@ db
                [] OTHER -> << >>
    IN  PutAll(PutAll(PutAll(EmptyTree, git), fl), sy)

\* the install tree before the invocation: not yet there, or left by an
\* earlier deployment
InstallTree(kind) ==
    IF kind = "fresh" THEN EmptyTree
    ELSE PutAll(EmptyTree,
                (FlakeNix :> File(<<"old">>)) @@ (FlakeLock :> File(LockV1))
                    @@ (<<"hardware-configuration.nix">> :> File(<<"hw">>)))

\* show_trace and fallback are read at deploy.rs:91-101 only, for the command
\* line of the global update: they vary where update is set
FlagsRead(update, show, fall) == update \/ (~show /\ ~fall)

\* what an invocation starts from, whatever function it enters
Start ==
    /\ deployment_time = 0
    /\ todo = <<>>
    /\ trace = <<>>
    /\ calls = <<>>
    /\ fileops = <<>>
    /\ error = <<>>
    /\ orig = config
    /\ orig_install = install

\* deploy_nix_configuration called with any settings, on any machine and tree
Init ==
    /\ entry = "deploy"
    /\ pc = "deploy_start"
    /\ os \in OsAnswers
    /\ \E flake \in FlakeKinds, systems \in SystemsKinds :
           config = SourceTree(flake, systems)
    /\ \E kind \in {"fresh", "stale"} : install = InstallTree(kind)
    /\ args = NoArgs
    /\ settings \in {st \in SettingsSet :
                         /\ st.install_path = InstallPathFor(os)
                         /\ FlagsRead(st.update, st.show_trace, st.fallback)}
    /\ nixInstalled = TRUE
    /\ repoStatus = "Same"
    /\ Start

\* the program run from the command line
MainInit ==
    /\ entry = "main"
    /\ pc = "main"
    /\ os \in OsAnswers
    /\ \E flake \in {"none", "file"}, systems \in {"none", "one"} :
           config = SourceTree(flake, systems)
    /\ install = InstallTree("fresh")
    /\ args \in {a \in ArgsSet : FlagsRead(a.update, a.show_trace, a.fallback)}
    /\ settings = NoSettings
    /\ nixInstalled \in BOOLEAN
    /\ repoStatus \in RepoStatuses
    /\ Start

Static == UNCHANGED <<entry, args, os, repoStatus, orig, orig_install>>

\* the manifest backed up and tagged after the sync to install
StepAfterSyncFirst(p) ==
    CASE p = "deploy_start" -> "convert"
      [] p = "convert" -> "tag_services"
      [] p = "tag_services" -> "update_input"
      [] p = "update_input" -> "sync"
      [] p = "sync" -> "force_eval"
      [] p = "force_eval" -> "global_update"
      [] p = "global_update" -> "build"
      [] p = "build" -> "sync_back"
      [] p = "sync_back" -> "done"

\* the global update placed after the build
StepAfterBuildFirst(p) ==
    CASE p = "deploy_start" -> "force_eval"
      [] p = "force_eval" -> "convert"
      [] p = "convert" -> "tag_services"
      [] p = "tag_services" -> "update_input"
      [] p = "update_input" -> "sync"
      [] p = "sync" -> "build"
      [] p = "build" -> "global_update"
      [] p = "global_update" -> "sync_back"
      [] p = "sync_back" -> "done"

\* deploy.rs:26-155: the statements of deploy_nix_configuration in their order
StepAfter(p) ==
    CASE p = "deploy_start" -> "force_eval"
      [] p = "force_eval" -> "convert"
      [] p = "convert" -> "tag_services"
      [] p = "tag_services" -> "update_input"
      [] p = "update_input" -> "sync"
      [] p = "sync" -> "global_update"
      [] p = "global_update" -> "build"
      [] p = "build" -> "sync_back"
      [] p = "sync_back" -> "done"

\* a result that is looked at by nobody
PropagateNothing(r, next) == next

\* the `?` operator on a step's result: go on, or return the error
Propagate(r, next) == IF r.ok THEN next ELSE "failed"

\* main.rs:91-92: main wraps what deploy_nix_configuration returns
DeployError(chain) ==
    IF entry = "main"
    THEN <<"Failed to deploy and build nix configuration">> \o chain ELSE chain

\* nix.rs:16-50 with is_nix_installed, nix.rs:6-14
InstallNix ==
    /\ pc = "main"
    /\ LET probe == Call("CHECK_NIX", "sh", <<"-c", "nix --version">>, "",
                         IF nixInstalled THEN "exit0" ELSE "exit1")
       IN  IF nixInstalled
           THEN /\ pc' = "settings"
                /\ calls' = Append(calls, probe)
                /\ UNCHANGED <<nixInstalled, error>>
           ELSE IF os = "undetected"
           THEN /\ pc' = "failed"
                /\ error' = <<"Error installing Nix.", "Failed to detect os version.">>
                /\ calls' = Append(calls, probe)
                /\ UNCHANGED nixInstalled
           ELSE IF os = "other"
           THEN /\ pc' = "failed"
                /\ error' = <<"Error installing Nix.", "Unsupported operating system.">>
                /\ calls' = Append(calls, probe)
                /\ UNCHANGED nixInstalled
           ELSE \E outcome \in Outcomes :
                    /\ calls' = calls \o <<probe,
                           Call("INSTALL_NIX", "sh", <<"-c", "curl ... | sh -s -- install">>,
                                "", outcome)>>
                    /\ nixInstalled' = (outcome = "exit0")
                    /\ pc' = IF outcome = "nospawn" THEN "failed" ELSE "settings"
                    /\ error' = IF outcome = "nospawn"
                                THEN <<"Error installing Nix.", "spawn failed">> ELSE error
    /\ Static
    /\ UNCHANGED <<settings, config, install, deployment_time, todo, trace, fileops>>

\* main.rs:50-67
InitSettings ==
    /\ pc = "settings"
    /\ IF os = "undetected"
       THEN /\ pc' = "failed"
            /\ error' = <<"Failed creating settings", "Failed to detect OS version">>
            /\ UNCHANGED settings
       ELSE /\ pc' = "flake_check"
            /\ settings' = ApplyFlags(SettingsNew(os), args)
            /\ UNCHANGED error
    /\ Static
    /\ UNCHANGED <<nixInstalled, config, install, deployment_time, todo, trace, calls,
                   fileops>>

\* main.rs:69-81
CheckFlake ==
    /\ pc = "flake_check"
    /\ IF ~ManifestPresent(config)
       THEN /\ pc' = "failed"
            /\ error' = <<"flake.nix not found in expected location">>
       ELSE /\ pc' = "hostname"
            /\ UNCHANGED error
    /\ Static
    /\ UNCHANGED <<settings, nixInstalled, config, install, deployment_time, todo, trace,
                   calls, fileops>>

\* main.rs:83-88
GetHostname ==
    /\ pc = "hostname"
    /\ \E got \in BOOLEAN :
           IF got
           THEN pc' = "deploy_start" /\ UNCHANGED error
           ELSE pc' = "failed" /\ error' = <<"Failed to get system hostname.">>
    /\ Static
    /\ UNCHANGED <<settings, nixInstalled, config, install, deployment_time, todo, trace,
                   calls, fileops>>

\* deploy.rs:29: the first reading of the clock is the origin of the model's
\* time; later readings are at or after it
Now0 == 0

\* deploy.rs:26-37
DeployStart ==
    /\ pc = "deploy_start"
    /\ IF os = "undetected"
       THEN /\ pc' = "failed"
            /\ error' = DeployError(<<"Failed to detect OS">>)
            /\ UNCHANGED <<deployment_time, trace>>
       ELSE /\ deployment_time' = Now0
            /\ trace' = Append(trace, "MANIFEST_CHECK")
            /\ IF ~ManifestPresent(config)
               THEN /\ pc' = "failed"
                    /\ error' = DeployError(<<"Config source dir does not contain flake.nix">>)
               ELSE /\ pc' = StepAfter("deploy_start")
                    /\ UNCHANGED error
    /\ Static
    /\ UNCHANGED <<settings, nixInstalled, config, install, todo, calls, fileops>>

\* deploy.rs:39-48
BackupAndTagManifest ==
    /\ pc = "force_eval"
    /\ IF ~settings.force_evaluation
       THEN /\ pc' = StepAfter("force_eval")
            /\ UNCHANGED <<config, trace, fileops, error>>
       ELSE \E now \in {t \in Timestamps : t >= deployment_time} :
                LET b == backup_file(config, FlakeNix, now)
                    tg == tag_file_content(b.tree, FlakeNix, deployment_time)
                IN  /\ trace' = Append(trace, "BACKUP_AND_TAG_MANIFEST")
                    /\ IF ~b.ok
                       THEN /\ config' = b.tree
                            /\ fileops' = Append(fileops, FileOp("backup", FlakeNix, now, FALSE))
                            /\ pc' = Propagate(b, StepAfter("force_eval"))
                            /\ error' = DeployError(
                                   <<"Failed to backup flake.nix before tagging", b.err>>)
                       ELSE /\ config' = tg.tree
                            /\ fileops' = fileops \o
                                   <<FileOp("backup", FlakeNix, now, TRUE),
                                     FileOp("tag", FlakeNix, deployment_time, tg.ok)>>
                            /\ pc' = Propagate(tg, StepAfter("force_eval"))
                            /\ error' = IF tg.ok THEN error
                                        ELSE DeployError(
                                            <<"Failed to tag file to force evaluation", tg.err>>)
    /\ Static
    /\ UNCHANGED <<settings, nixInstalled, install, deployment_time, todo, calls>>

ConvertContext ==
    "Failed to use compose2nix to convert docker-compose.yml projects to .nix files"

\* deploy.rs:208-225, called at deploy.rs:51-53
BuildDockerComposeYml ==
    /\ pc = "convert"
    /\ LET found == search_files_with_name(config, HostDir, ComposeName)
       IN  /\ trace' = Append(trace, "CONVERT_SERVICES")
           /\ IF ~found.ok
              THEN /\ pc' = "failed"
                   /\ error' = DeployError(<<ConvertContext, "read_dir failed">>)
                   /\ UNCHANGED todo
              ELSE IF found.files = {}
              THEN /\ pc' = StepAfter("convert")
                   /\ UNCHANGED <<todo, error>>
              ELSE /\ pc' = "convert_loop"
                   /\ todo' \in Orders(found.files)
                   /\ UNCHANGED error
    /\ Static
    /\ UNCHANGED <<settings, nixInstalled, config, install, deployment_time, calls, fileops>>

\* deploy.rs:227-279: one turn of the loop over the files found
ConvertNext ==
    /\ pc = "convert_loop"
    /\ \E outcome \in Outcomes :
           LET path == Head(todo)
               dir == Parent(path)
               name == FileName(dir)
               path_d2ccmd == Join2(dir, ".compose2nix")
               contents == IF Exists(config, path_d2ccmd)
                           THEN split_whitespace(config[path_d2ccmd].data, "")
                           ELSE <<>>
               custom == contents # <<>>
               r == realtime_command(outcome)
           IN  /\ calls' = Append(calls,
                      IF custom
                      THEN Call("CONVERT_SERVICES", Head(contents), Tail(contents), dir, outcome)
                      ELSE Call("CONVERT_SERVICES", "compose2nix", <<"-project", name>>, dir,
                                outcome))
               /\ config' = IF r.ok /\ ~custom THEN Converted(config, dir) ELSE config
               /\ IF ~r.ok
                  THEN /\ pc' = "failed"
                       /\ error' = DeployError(<<ConvertContext, r.err>>)
                       /\ UNCHANGED todo
                  ELSE IF custom
                  THEN /\ pc' = StepAfter("convert")               \* deploy.rs:264
                       /\ todo' = <<>>
                       /\ UNCHANGED error
                  ELSE /\ pc' = IF Tail(todo) = <<>> THEN StepAfter("convert") ELSE "convert_loop"
                       /\ todo' = Tail(todo)
                       /\ UNCHANGED error
    /\ Static
    /\ UNCHANGED <<settings, nixInstalled, install, deployment_time, trace, fileops>>

\* deploy.rs:57-59: tag the files in the order found, stopping at the first error
RECURSIVE TagAll(_, _, _)
TagAll(tree, files, t) ==
    IF files = <<>> THEN [ok |-> TRUE, tree |-> tree, err |-> "", ops |-> <<>>]
    ELSE LET r == tag_file_content(tree, Head(files), t)
             op == FileOp("tag", Head(files), t, r.ok)
         IN  IF ~r.ok THEN [ok |-> FALSE, tree |-> r.tree, err |-> r.err, ops |-> <<op>>]
             ELSE LET rest == TagAll(r.tree, Tail(files), t)
                  IN  [rest EXCEPT !.ops = <<op>> \o rest.ops]

\* deploy.rs:55-60.  Each call rewrites one file of its own, so the tree the
\* loop leaves does not depend on the order read_dir hands the files over in:
\* one order stands for all.
TagServiceDefinitions ==
    /\ pc = "tag_services"
    /\ IF ~settings.update
       THEN /\ pc' = StepAfter("tag_services")
            /\ UNCHANGED <<config, trace, fileops, error>>
       ELSE LET found == search_files_with_name(config, <<>>, ComposeName)
                order == CHOOSE o \in Orders(found.files) : TRUE
                r == TagAll(config, order, deployment_time)
            IN  /\ trace' = Append(trace, "TAG_SERVICES")
                /\ config' = r.tree
                /\ fileops' = fileops \o r.ops
                /\ pc' = Propagate(r, StepAfter("tag_services"))
                /\ error' = IF r.ok THEN error ELSE DeployError(<<r.err>>)
    /\ Static
    /\ UNCHANGED <<settings, nixInstalled, install, deployment_time, todo, calls>>

\* deploy.rs:63-68: the Result of realtime_command_in_dir is dropped
AfterUpdateInput(r) == StepAfter("update_input")

\* deploy.rs:62-69
UpdateSingleInput ==
    /\ pc = "update_input"
    /\ IF ~settings.update_input.some
       THEN /\ pc' = StepAfter("update_input")
            /\ UNCHANGED <<config, trace, calls>>
       ELSE \E outcome \in Outcomes :
                LET r == realtime_command(outcome)
                IN  /\ trace' = Append(trace, "UPDATE_SINGLE_INPUT")
                    /\ calls' = Append(calls,
                           Call("UPDATE_SINGLE_INPUT", "nix",
                                <<"flake", "lock", "--update-input", settings.update_input.name>>,
                                ConfigPath, outcome))
                    /\ config' = IF r.ok THEN Relock(config) ELSE config
                    /\ pc' = AfterUpdateInput(r)
    /\ Static
    /\ UNCHANGED <<settings, nixInstalled, install, deployment_time, todo, fileops, error>>

\* deploy.rs:71-79
SyncToInstall ==
    /\ pc = "sync"
    /\ \E outcome \in Outcomes :
           LET r == realtime_command(outcome)
           IN  /\ trace' = Append(trace, "SYNC_TO_INSTALL")
               /\ calls' = Append(calls,
                      RsyncCall("SYNC_TO_INSTALL", ConfigPath, settings.install_path,
                                sync_exclusions, ToInstallParams, outcome))
               /\ install' = IF r.ok THEN SyncToInstallTree(config, install) ELSE install
               /\ pc' = Propagate(r, StepAfter("sync"))
               /\ error' = IF r.ok THEN error ELSE DeployError(<<"Failed rsync", r.err>>)
    /\ Static
    /\ UNCHANGED <<settings, nixInstalled, config, deployment_time, todo, fileops>>

\* deploy.rs:81-109
update_command ==
    (IF os = "macos" THEN <<>> ELSE <<"sudo">>)
        \o <<"nix", "flake", "update">>
        \o (IF settings.show_trace THEN <<"-vv">> ELSE <<>>)
        \o (IF settings.fallback THEN <<"--fallback">> ELSE <<>>)
        \o (IF settings.show_trace THEN <<"--show-trace">> ELSE <<>>)
        \o <<settings.install_path>>

\* deploy.rs:111-116, with realtime_command_vec, deploy.rs:321-326
RunGlobalUpdate ==
    /\ pc = "global_update"
    /\ IF ~settings.update
       THEN /\ pc' = StepAfter("global_update")
            /\ UNCHANGED <<install, trace, calls, error>>
       ELSE \E outcome \in Outcomes :
                LET r == realtime_command(outcome)
                IN  /\ trace' = Append(trace, "GLOBAL_UPDATE")
                    /\ calls' = Append(calls,
                           Call("GLOBAL_UPDATE", Head(update_command), Tail(update_command),
                                "", outcome))
                    /\ install' = IF r.ok THEN Relock(install) ELSE install
                    /\ pc' = Propagate(r, StepAfter("global_update"))
                    /\ error' = IF r.ok THEN error ELSE DeployError(<<r.err>>)
    /\ Static
    /\ UNCHANGED <<settings, nixInstalled, config, deployment_time, todo, fileops>>

\* a dispatch that takes every Linux for NixOS
build_command_any_linux(o, install_path) ==
    CASE o \in {"nixos", "linux"} ->
             [supported |-> TRUE, cmd |-> "sudo", args |-> <<"nixos-rebuild", "switch">>]
      [] o = "macos" ->
             [supported |-> TRUE, cmd |-> "darwin-rebuild",
              args |-> <<"switch", "--flake", install_path>>]
      [] OTHER -> [supported |-> FALSE, cmd |-> "", args |-> <<>>]

\* deploy.rs:118-143: the arms of `match os`
build_command(o, install_path) ==
    CASE o = "nixos" ->
             [supported |-> TRUE, cmd |-> "sudo", args |-> <<"nixos-rebuild", "switch">>]
      [] o = "macos" ->
             [supported |-> TRUE, cmd |-> "darwin-rebuild",
              args |-> <<"switch", "--flake", install_path>>]
      [] OTHER -> [supported |-> FALSE, cmd |-> "", args |-> <<>>]

\* deploy.rs:118-143
BuildAndApply ==
    /\ pc = "build"
    /\ trace' = Append(trace, "BUILD_AND_APPLY")
    /\ LET b == build_command(os, settings.install_path)
       IN  IF ~b.supported
           THEN /\ pc' = "failed"
                /\ error' = DeployError(<<"Unsupported OS">>)
                /\ UNCHANGED <<install, calls>>
           ELSE \E outcome \in Outcomes :
                    LET r == realtime_command(outcome)
                    IN  /\ calls' = Append(calls,
                               Call("BUILD_AND_APPLY", b.cmd, b.args, "", outcome))
                        /\ install' = IF r.ok THEN LockIfMissing(install) ELSE install
                        /\ pc' = Propagate(r, StepAfter("build"))
                        /\ error' = IF r.ok THEN error ELSE DeployError(<<r.err>>)
    /\ Static
    /\ UNCHANGED <<settings, nixInstalled, config, deployment_time, todo, fileops>>

\* deploy.rs:145-155
SyncLockstateBack ==
    /\ pc = "sync_back"
    /\ \E outcome \in Outcomes :
           LET r == realtime_command(outcome)
           IN  /\ trace' = Append(trace, "SYNC_LOCKSTATE_BACK")
               /\ calls' = Append(calls,
                      RsyncCall("SYNC_LOCKSTATE_BACK", settings.install_path, ConfigPath,
                                SyncBackExclusions, SyncBackParams, outcome))
               /\ config' = IF r.ok THEN SyncBackTree(install, config) ELSE config
               /\ pc' = Propagate(r, StepAfter("sync_back"))
               /\ error' = IF r.ok THEN error
                           ELSE DeployError(
                               <<"Failed syncing updated .lock files back to config dir", r.err>>)
    /\ Static
    /\ UNCHANGED <<settings, nixInstalled, install, deployment_time, todo, fileops>>

Next ==
    \/ DeployStart
    \/ BackupAndTagManifest
    \/ BuildDockerComposeYml
    \/ ConvertNext
    \/ TagServiceDefinitions
    \/ UpdateSingleInput
    \/ SyncToInstall
    \/ RunGlobalUpdate
    \/ BuildAndApply
    \/ SyncLockstateBack

MainNext ==
    \/ InstallNix
    \/ InitSettings
    \/ CheckFlake
    \/ GetHostname
    \/ Next

Spec == Init /\ [][Next]_vars

SpecMain == MainInit /\ [][MainNext]_vars

\* an invocation entered at either function
AnyInit == Init \/ MainInit

SpecAny == AnyInit /\ [][MainNext]_vars

-----------------------------------------------------------------------------
(* SpecTag: tag_file_content called again and again on one path.           *)

TagInit ==
    /\ Idle
    /\ \E node \in {File(text) : text \in SeqsUpTo(Symbols, MaxLen)} \cup {Dir} :
           config = Put(EmptyTree, FlakeNix, node)
    /\ orig = config
    /\ fileops = <<>>

TagFile ==
    /\ Len(fileops) < MaxTags
    /\ \E t \in Timestamps :
           LET r == tag_file_content(config, FlakeNix, t)
           IN  /\ config' = r.tree
               /\ fileops' = Append(fileops, FileOp("tag", FlakeNix, t, r.ok))
    /\ UNCHANGED <<pc, entry, args, settings, os, nixInstalled, repoStatus, install,
                   deployment_time, todo, trace, calls, error, orig, orig_install>>

TagNext == TagFile

SpecTag == TagInit /\ [][TagNext]_vars

TaggedOnce == fileops # <<>> /\ \A i \in 1..Len(fileops) : fileops[i].ok

TagLineCount(lines) == Cardinality({i \in 1..Len(lines) : StartsWithTag(lines[i])})

\* the lines of a text when only LF ends a line (a CR stays in its line)
RECURSIVE StripLF(_)
StripLF(pieces) ==
    IF pieces = <<>> THEN <<>>
    ELSE LET piece == pieces[1]
         IN  <<IF piece # <<>> /\ piece[Len(piece)] = LF
               THEN SubSeq(piece, 1, Len(piece) - 1) ELSE piece>>
             \o StripLF(Tail(pieces))

LinesLF(text) == StripLF(SplitInclusive(text))

\* what C7 says of the file, for one reading L of "the lines of a text"
TagPostcondition(L(_)) ==
    LET lines == L(config[FlakeNix].data)
        n == Len(lines)
    IN  /\ n >= 1
        /\ TagLineCount(lines) = 1
        /\ lines[n] = TagLine(fileops[Len(fileops)].t)
        /\ SubSeq(lines, 1, n - 1) = FilterUntagged(L(orig[FlakeNix].data))

\* C7: after any non-empty sequence of successful tag_file_content calls with
\* timestamps t1..tn on a file, the file holds exactly one tag line, it is the
\* last line and carries tn, and the lines before it are the non-tag lines of
\* the initial text, verbatim and in their order.  Stated for either reading of
\* "line": as str::lines splits the text, or as LF alone splits it.
TagIdempotence ==
    TaggedOnce => (TagPostcondition(Lines) \/ TagPostcondition(LinesLF))

HasLineEndingCR(text) ==
    \E i \in 1..Len(text) : text[i] = CR /\ (i = Len(text) \/ text[i + 1] = LF)

\* On initial texts in which no line ends with a carriage return,
\* tag_file_content keeps every line, under both readings.
TagIdempotenceNoCR ==
    (TaggedOnce /\ ~HasLineEndingCR(orig[FlakeNix].data)) =>
        (TagPostcondition(Lines) /\ TagPostcondition(LinesLF))

\* a file was tagged twice with different timestamps
TaggedTwice ==
    /\ Len(fileops) >= 2
    /\ TaggedOnce
    /\ fileops[1].t # fileops[2].t
    /\ TagLineCount(Lines(orig[FlakeNix].data)) >= 1

-----------------------------------------------------------------------------
(* SpecBackup: backup_file called on the files of a tree, which the user   *)
(* may edit between two calls.                                             *)

Compose == <<"svc", "docker-compose.yml">>

BackupInit ==
    /\ Idle
    /\ \E flake \in {"file", "dir", "none"}, bdir \in {"none", "dir", "file"} :
           LET t0 == Put(Put(EmptyTree, <<"svc">>, Dir), Compose, File(<<"b">>))
               t1 == CASE flake = "file" -> Put(t0, FlakeNix, File(<<"a">>))
                       [] flake = "dir" -> Put(t0, FlakeNix, Dir)
                       [] OTHER -> t0
               t2 == CASE bdir = "dir" -> Put(t1, <<BackupDirName>>, Dir)
                       [] bdir = "file" -> Put(t1, <<BackupDirName>>, File(<<"a">>))
                       [] OTHER -> t1
           IN  config = t2
    /\ orig = config
    /\ fileops = <<>>

BackupFile ==
    /\ Len(fileops) < MaxBackupOps
    /\ \E path \in {FlakeNix, Compose, <<>>}, t \in Timestamps :
           LET r == backup_file(config, path, t)
           IN  /\ config' = r.tree
               /\ fileops' = Append(fileops, FileOp("backup", path, t, r.ok))
    /\ orig' = config
    /\ UNCHANGED <<pc, entry, args, settings, os, nixInstalled, repoStatus, install,
                   deployment_time, todo, trace, calls, error, orig_install>>

\* the user rewrites a file of the tree between two calls
EditFile ==
    /\ Len(fileops) < MaxBackupOps
    /\ \E path \in {FlakeNix, Compose} :
           /\ IsFile(config, path)
           /\ config' = Put(config, path,
                            File(IF config[path].data = <<"a">> THEN <<"b">> ELSE <<"a">>))
           /\ fileops' = Append(fileops, FileOp("edit", path, 0, TRUE))
    /\ orig' = config
    /\ UNCHANGED <<pc, entry, args, settings, os, nixInstalled, repoStatus, install,
                   deployment_time, todo, trace, calls, error, orig_install>>

BackupNext == BackupFile \/ EditFile

SpecBackup == BackupInit /\ [][BackupNext]_vars

LastOp == fileops[Len(fileops)]

JustBackedUp == fileops # <<>> /\ LastOp.op = "backup"

\* '<filename of f>-<t in RFC3339>' in the '.concierge-backup' directory beside f
ExpectedBackupPath(f, t) ==
    IF f = <<>> THEN <<>>
    ELSE SubSeq(f, 1, Len(f) - 1)
             \o <<".concierge-backup", f[Len(f)] \o "-" \o to_rfc3339(t)>>

InBackupDir(p) == Len(p) >= 2 /\ p[Len(p) - 1] = ".concierge-backup"

\* C8: after a successful backup_file(f, t) the file '<filename of f>-<t in
\* RFC3339>' exists in the '.concierge-backup' directory beside f with the
\* content f had at call time, and f still exists with that content.
BackupFidelity ==
    (JustBackedUp /\ LastOp.ok) =>
        LET f == LastOp.path
            b == ExpectedBackupPath(f, LastOp.t)
        IN  /\ IsFile(orig, f)
            /\ IsFile(config, b)
            /\ config[b].data = orig[f].data
            /\ IsFile(config, f)
            /\ config[f] = orig[f]

\* a nested file was backed up into a backup directory the call had to create
BackedUpNested ==
    /\ JustBackedUp
    /\ LastOp.ok
    /\ LastOp.path = Compose
    /\ ~Exists(orig, <<"svc", ".concierge-backup">>)
    /\ config[ExpectedBackupPath(Compose, LastOp.t)].data # <<>>

\* C9: no backup_file call, whatever its file and timestamp, modifies
\* or replaces a backup file that already exists.
BackupsNeverOverwritten ==
    JustBackedUp =>
        \A p \in DOMAIN orig :
            (InBackupDir(p) /\ IsFile(orig, p)) => (IsFile(config, p) /\ config[p] = orig[p])

\* What backup_file does keep: every existing backup file but the one that
\* carries the call's own file name and timestamp.
BackupsKeptUnlessSameStamp ==
    JustBackedUp =>
        \A p \in DOMAIN orig :
            (InBackupDir(p) /\ IsFile(orig, p) /\ p # ExpectedBackupPath(LastOp.path, LastOp.t))
                => (IsFile(config, p) /\ config[p] = orig[p])

\* a second backup of an edited file, under another timestamp, stands beside the
\* first backup, each with the content of its time
TwoBackupsKept ==
    /\ Len(fileops) >= 3
    /\ fileops[1].op = "backup" /\ fileops[1].ok /\ fileops[1].path = FlakeNix
    /\ fileops[2].op = "edit" /\ fileops[2].path = FlakeNix
    /\ fileops[3].op = "backup" /\ fileops[3].ok /\ fileops[3].path = FlakeNix
    /\ fileops[1].t # fileops[3].t
    /\ Len(fileops) = 3
    /\ config[ExpectedBackupPath(FlakeNix, fileops[1].t)].data
           # config[ExpectedBackupPath(FlakeNix, fileops[3].t)].data

-----------------------------------------------------------------------------
(* Claims about the invocation.                                            *)

StepsEntered == SeqRange(trace)

CallsAt(step) == {i \in 1..Len(calls) : calls[i].step = step}

FailedAt(step) == \E i \in CallsAt(step) : calls[i].outcome # "exit0"

Ended == pc \in {"done", "failed"}

\* C1: if the sync-to-install step fails, the global update, the build-and-apply
\* command and the lock-state sync-back are never invoked; if the
\* build-and-apply command fails, the sync-back is never invoked; the run ends
\* in an error in both cases.
FailFast ==
    /\ FailedAt("SYNC_TO_INSTALL") =>
           /\ pc = "failed" /\ error # <<>>
           /\ CallsAt("GLOBAL_UPDATE") = {}
           /\ CallsAt("BUILD_AND_APPLY") = {}
           /\ CallsAt("SYNC_LOCKSTATE_BACK") = {}
           /\ StepsEntered \cap {"GLOBAL_UPDATE", "BUILD_AND_APPLY", "SYNC_LOCKSTATE_BACK"} = {}
    /\ FailedAt("BUILD_AND_APPLY") =>
           /\ pc = "failed" /\ error # <<>>
           /\ CallsAt("SYNC_LOCKSTATE_BACK") = {}
           /\ "SYNC_LOCKSTATE_BACK" \notin StepsEntered

\* the sync-to-install of a run that asked for an update failed
SyncFailedInUpdateRun ==
    /\ FailedAt("SYNC_TO_INSTALL")
    /\ settings.update
    /\ pc = "failed"

\* the place of a step in the order C2 gives (the converter step is not in it)
Rank(step) ==
    CASE step = "MANIFEST_CHECK" -> 1
      [] step = "BACKUP_AND_TAG_MANIFEST" -> 2
      [] step = "TAG_SERVICES" -> 3
      [] step = "UPDATE_SINGLE_INPUT" -> 4
      [] step = "SYNC_TO_INSTALL" -> 5
      [] step = "GLOBAL_UPDATE" -> 6
      [] step = "BUILD_AND_APPLY" -> 7
      [] step = "SYNC_LOCKSTATE_BACK" -> 8
      [] OTHER -> 0

\* a step that is gated by a flag runs only with the flag, and has run with the
\* flag whenever a step after it has run
GatedBy(step, flag) ==
    /\ step \in StepsEntered => flag
    /\ (flag /\ \E later \in StepsEntered : Rank(later) > Rank(step)) => step \in StepsEntered

\* C2: the steps of a run occur in the order manifest check, backup-and-tag
\* manifest, tag service definitions, update single input, sync-to-install,
\* global update, build-and-apply, sync-back; backup-and-tag runs iff
\* force_evaluation, tagging and global update iff update, update-single-input
\* iff update_input is Some; sync-back is the last step.
StepOrder ==
    /\ \A i, j \in 1..Len(trace) :
           (i < j /\ Rank(trace[i]) > 0 /\ Rank(trace[j]) > 0)
               => Rank(trace[i]) < Rank(trace[j])
    /\ GatedBy("BACKUP_AND_TAG_MANIFEST", settings.force_evaluation)
    /\ GatedBy("TAG_SERVICES", settings.update)
    /\ GatedBy("GLOBAL_UPDATE", settings.update)
    /\ GatedBy("UPDATE_SINGLE_INPUT", settings.update_input.some)
    /\ pc = "done" => trace[Len(trace)] = "SYNC_LOCKSTATE_BACK"
    /\ pc # "done" => "SYNC_LOCKSTATE_BACK" \notin StepsEntered \/ pc = "failed"

\* a run with every flag set went through all the steps
AllStepsDone ==
    /\ pc = "done"
    /\ settings.force_evaluation /\ settings.update /\ settings.update_input.some
    /\ Len(trace) = 9

\* the steps and commands that change the source, the install tree or the system
NoDeploymentEffect ==
    /\ fileops = <<>>
    /\ config = orig
    /\ install = orig_install
    /\ StepsEntered \subseteq {"MANIFEST_CHECK"}
    /\ pc \in {"main", "settings", "flake_check", "deploy_start", "failed"}
    /\ pc = "failed" => error # <<>>

\* C3: without flake.nix at the source root the invocation ends with
\* a fatal error and nothing has been attempted: no backup, tag, converter,
\* input update, sync, global update, build or sync-back, and at the level of
\* main no external command that changes the system.
MissingManifestNoEffect ==
    FlakeNix \notin DOMAIN orig =>
        /\ NoDeploymentEffect
        /\ \A i \in 1..Len(calls) : calls[i].step = "CHECK_NIX"

\* What holds without flake.nix: nothing but the Nix installer has run, which
\* main starts before it looks for the manifest when Nix is not installed;
\* deploy_nix_configuration itself has run no command at all.
MissingManifestOnlyInstalls ==
    FlakeNix \notin DOMAIN orig =>
        /\ NoDeploymentEffect
        /\ \A i \in 1..Len(calls) : calls[i].step \in {"CHECK_NIX", "INSTALL_NIX"}
        /\ entry = "deploy" => calls = <<>>

\* main, having installed Nix, stopped at the missing manifest
StoppedAtMissingManifest ==
    /\ entry = "main"
    /\ FlakeNix \notin DOMAIN orig
    /\ pc = "failed"
    /\ error = <<"flake.nix not found in expected location">>
    /\ CallsAt("INSTALL_NIX") # {}

\* C4: the invocation asks for the status of the source repository before any
\* step with an effect, and with the status Complex it ends with an error
\* without any tag, sync, update or build step.
ComplexStatusRefused ==
    repoStatus = "Complex" =>
        /\ pc # "done"
        /\ fileops = <<>>
        /\ StepsEntered \cap {"BACKUP_AND_TAG_MANIFEST", "TAG_SERVICES",
                              "UPDATE_SINGLE_INPUT", "SYNC_TO_INSTALL", "GLOBAL_UPDATE",
                              "BUILD_AND_APPLY", "SYNC_LOCKSTATE_BACK"} = {}

\* C5: if the update-single-input command fails to spawn, exits nonzero or is
\* killed by a signal, deploy_nix_configuration returns an error and performs
\* no sync-to-install, global update, build or sync-back.
UpdateInputFailureStops ==
    FailedAt("UPDATE_SINGLE_INPUT") =>
        /\ pc = "failed"
        /\ StepsEntered \cap {"SYNC_TO_INSTALL", "GLOBAL_UPDATE", "BUILD_AND_APPLY",
                              "SYNC_LOCKSTATE_BACK"} = {}

BackedUpBefore(i) ==
    \E j \in 1..(i - 1) :
        /\ fileops[j].op = "backup" /\ fileops[j].ok
        /\ fileops[j].path = fileops[i].path
        /\ LET b == ExpectedBackupPath(fileops[j].path, fileops[j].t)
           IN  /\ fileops[i].path \in DOMAIN orig
               /\ IsFile(config, b)
               /\ config[b].data = orig[fileops[i].path].data

\* C6: every Tag of a run, of the manifest and of every
\* docker-compose.yml, is preceded in the run by a successful Backup of the same
\* file, so that the pre-tag content of the file exists in a backup.
EveryTagBackedUp ==
    \A i \in 1..Len(fileops) : fileops[i].op = "tag" => BackedUpBefore(i)

\* What holds of the tags: the manifest is backed up before it is tagged, and
\* its pre-tag content is in that backup; no docker-compose.yml is backed up.
ManifestTagBackedUp ==
    \A i \in 1..Len(fileops) :
        fileops[i].op = "tag" =>
            IF fileops[i].path = FlakeNix THEN BackedUpBefore(i)
            ELSE \A j \in 1..Len(fileops) :
                     fileops[j].op = "backup" => fileops[j].path # fileops[i].path

\* a manifest that carried an older tag was backed up and tagged anew
TaggedManifestAfterBackup ==
    /\ \E i \in 1..Len(fileops) : fileops[i].op = "tag" /\ fileops[i].path = FlakeNix
    /\ IsFile(orig, FlakeNix)
    /\ TagLineCount(Lines(orig[FlakeNix].data)) = 1
    /\ config[FlakeNix].data # orig[FlakeNix].data
    /\ pc = "done"

NoFlags ==
    /\ ~settings.update
    /\ ~settings.force_evaluation
    /\ ~settings.update_input.some

\* C10: with flake.nix at the root of the source and nothing else required, no
\* flag set, a supported system and every external command succeeding, the
\* deployment completes with exactly one sync-to-install and one
\* build-and-apply, no tag and no global update.
EndToEndNoFlags ==
    (/\ Ended
     /\ FlakeNix \in DOMAIN orig
     /\ NoFlags
     /\ os \in {"nixos", "macos"}
     /\ \A i \in 1..Len(calls) : calls[i].outcome = "exit0")
        => /\ pc = "done"
           /\ Cardinality(CallsAt("SYNC_TO_INSTALL")) = 1
           /\ Cardinality(CallsAt("BUILD_AND_APPLY")) = 1
           /\ CallsAt("GLOBAL_UPDATE") = {}
           /\ \A i \in 1..Len(fileops) : fileops[i].op # "tag"

-----------------------------------------------------------------------------
(* Claims about the command line and the system dispatch.                  *)

\* the update-single-input command for input n was run, in the source
\* directory, before any sync-to-install call
UpdatedInputBeforeSync(n) ==
    \E i \in CallsAt("UPDATE_SINGLE_INPUT") :
        /\ calls[i].cmd = "nix"
        /\ calls[i].args = <<"flake", "lock", "--update-input", n>>
        /\ calls[i].dir = ConfigPath
        /\ \A j \in CallsAt("SYNC_TO_INSTALL") : i < j

\* C11: invoked with the update-single-input flag naming input N, the
\* deployment executes the update-single-input step for N, in the source
\* directory, before sync-to-install; without the flag the step is not executed.
UpdateInputFlagRuns ==
    entry = "main" =>
        /\ (args.update_input.some /\ "SYNC_TO_INSTALL" \in StepsEntered)
               => UpdatedInputBeforeSync(args.update_input.name)
        /\ ~args.update_input.some => "UPDATE_SINGLE_INPUT" \notin StepsEntered

\* C12: on Linux with distro nixos the build step is the elevated
\* `sudo nixos-rebuild switch`; on macOS it is the unelevated
\* `darwin-rebuild switch --flake <install path>`; on any other system the
\* deployment ends in a fatal error with no builder command invoked and no
\* lock-state sync-back performed.
OsDispatch ==
    /\ \A i \in CallsAt("BUILD_AND_APPLY") :
           /\ os \in {"nixos", "macos"}
           /\ os = "nixos" =>
                  /\ calls[i].cmd = "sudo"
                  /\ calls[i].args = <<"nixos-rebuild", "switch">>
           /\ os = "macos" =>
                  /\ calls[i].cmd = "darwin-rebuild"
                  /\ calls[i].args = <<"switch", "--flake", "/etc/nix-config">>
                  /\ settings.install_path = "/etc/nix-config"
    /\ ("BUILD_AND_APPLY" \in StepsEntered /\ os \in {"nixos", "macos"})
           => Cardinality(CallsAt("BUILD_AND_APPLY")) = 1
    /\ os \notin {"nixos", "macos"} =>
           /\ pc # "done"
           /\ CallsAt("SYNC_LOCKSTATE_BACK") = {}
           /\ "SYNC_LOCKSTATE_BACK" \notin StepsEntered
           /\ "BUILD_AND_APPLY" \in StepsEntered =>
                  /\ pc = "failed"
                  /\ error = <<"Unsupported OS">>

\* a Linux that is not NixOS got as far as the build step
OtherLinuxAtBuild ==
    /\ os = "linux"
    /\ "BUILD_AND_APPLY" \in StepsEntered
    /\ \E i \in CallsAt("SYNC_TO_INSTALL") : calls[i].outcome = "exit0"

-----------------------------------------------------------------------------
(* SpecSync: the two rsync steps of a deployment, run one after the other  *)
(* on any source tree and any install tree.                                *)

MaxSyncOps == 2   \* most sync steps in a row in SpecSync

\* the files a source tree of SpecSync may hold
SourceFiles ==
    {<<"flake.nix">>, <<"flake.lock">>, <<"sub", "dep.lock.bak">>, <<".git", "index.lock">>,
     <<".concierge-backup", "flake.nix-old">>, <<".stfolder", "marker">>, <<".gitignore">>}

\* the files an install tree of SpecSync may hold
InstallFiles ==
    {<<"flake.nix">>, <<"flake.lock">>, <<"sub", "dep.lock">>, <<"sub", "dep.lock.bak">>,
     <<"hardware-configuration.nix">>, <<".git", "index.lock">>}

\* the tree that holds the given files, each with the given text, and the
\* directories above them
TreeOf(files, text) ==
    LET dirs == {<<>>} \cup UNION {{SubSeq(f, 1, k) : k \in 0..(Len(f) - 1)} : f \in files}
    IN  [p \in dirs \cup files |-> IF p \in files THEN File(text) ELSE Dir]

SyncInit ==
    /\ pc = "idle"
    /\ entry = "none"
    /\ args = NoArgs
    /\ os \in {"nixos", "macos"}
    /\ settings = SettingsNew(os)
    /\ nixInstalled = TRUE
    /\ repoStatus = "Same"
    /\ \E files \in SUBSET SourceFiles : config = TreeOf(files, <<"s">>)
    /\ \E files \in SUBSET InstallFiles : install = TreeOf(files, <<"i">>)
    /\ deployment_time = 0
    /\ todo = <<>>
    /\ trace = <<>>
    /\ calls = <<>>
    /\ fileops = <<>>
    /\ error = <<>>
    /\ orig = config
    /\ orig_install = install

\* deploy.rs:72-79 on its own: orig and orig_install keep the trees the step found
SyncToInstallStep ==
    /\ Len(trace) < MaxSyncOps
    /\ \E outcome \in Outcomes :
           LET r == realtime_command(outcome)
           IN  /\ install' = IF r.ok THEN SyncToInstallTree(config, install) ELSE install
               /\ fileops' = Append(fileops, FileOp("sync_to_install", <<>>, 0, r.ok))
    /\ trace' = Append(trace, "SYNC_TO_INSTALL")
    /\ orig' = config
    /\ orig_install' = install
    /\ UNCHANGED <<pc, entry, args, settings, os, nixInstalled, repoStatus, config,
                   deployment_time, todo, calls, error>>

\* deploy.rs:146-153 on its own
SyncBackStep ==
    /\ Len(trace) < MaxSyncOps
    /\ \E outcome \in Outcomes :
           LET r == realtime_command(outcome)
           IN  /\ config' = IF r.ok THEN SyncBackTree(install, config) ELSE config
               /\ fileops' = Append(fileops, FileOp("sync_back", <<>>, 0, r.ok))
    /\ trace' = Append(trace, "SYNC_LOCKSTATE_BACK")
    /\ orig' = config
    /\ orig_install' = install
    /\ UNCHANGED <<pc, entry, args, settings, os, nixInstalled, repoStatus, install,
                   deployment_time, todo, calls, error>>

SyncNext == SyncToInstallStep \/ SyncBackStep

SpecSync == SyncInit /\ [][SyncNext]_vars

\* the last step was a sync of the given kind that succeeded
JustSynced(op) ==
    /\ fileops # <<>>
    /\ fileops[Len(fileops)].op = op
    /\ fileops[Len(fileops)].ok

FilesOf(tree) == {p \in DOMAIN tree : tree[p].kind = "file"}

\* C13: the sync-to-install step never deletes a file that exists only in the
\* install tree: every file present only in install before the step is present
\* with the same content after it.
SyncToInstallAdditive ==
    (fileops # <<>> /\ fileops[Len(fileops)].op = "sync_to_install") =>
        \A p \in FilesOf(orig_install) :
            p \notin DOMAIN orig => (p \in DOMAIN install /\ install[p] = orig_install[p])

\* a sync into an install tree that held a file the source does not have,
\* while another file of the install tree was overwritten
KeptInstallOnlyFile ==
    /\ JustSynced("sync_to_install")
    /\ <<"hardware-configuration.nix">> \in DOMAIN orig_install
    /\ <<"flake.nix">> \in DOMAIN orig_install
    /\ <<"flake.nix">> \in DOMAIN orig
    /\ install[<<"flake.nix">>] # orig_install[<<"flake.nix">>]

LockFilesOf(tree) == {p \in FilesOf(tree) : MatchesLockPattern(FileName(p))}

\* C14: the lock-state sync-back runs in mirror mode: a lock file that exists in
\* the source tree and is absent from the install tree is deleted from the
\* source tree by the sync-back.
SyncBackMirrors ==
    JustSynced("sync_back") =>
        \A p \in LockFilesOf(orig) : p \notin DOMAIN orig_install => p \notin DOMAIN config

\* C15: the lock-state sync-back copies only files whose name matches *.lock:
\* every file of the source tree whose name does not match has the same
\* existence and content after the sync-back as before it, and no such file is
\* brought in from the install tree.
SyncBackOnlyLocks ==
    (fileops # <<>> /\ fileops[Len(fileops)].op = "sync_back") =>
        /\ \A p \in FilesOf(orig) \ LockFilesOf(orig) :
               p \in DOMAIN config /\ config[p] = orig[p]
        /\ \A p \in FilesOf(config) \ LockFilesOf(config) :
               p \in DOMAIN orig /\ orig[p] = config[p]

\* a sync-back from an install tree with a new lock file and with files that
\* are no lock files, one of them unknown to the source
BroughtBackLockOnly ==
    /\ JustSynced("sync_back")
    /\ <<"sub", "dep.lock">> \in DOMAIN config
    /\ <<"sub", "dep.lock">> \notin DOMAIN orig
    /\ <<"sub", "dep.lock.bak">> \in DOMAIN orig_install
    /\ <<"hardware-configuration.nix">> \in DOMAIN orig_install
    /\ <<"flake.nix">> \in DOMAIN orig_install
    /\ <<"flake.nix">> \in DOMAIN orig

\* the names the default settings keep out of the install tree
DefaultExclusions == {".gitignore", ".stfolder", ".git", ".concierge-backup"}

NamedExcluded(p) == \E i \in 1..Len(p) : p[i] \in DefaultExclusions

\* after a successful sync-to-install every file of the source outside the
\* default exclusions is in the install tree with identical content
SourceIsInstalled ==
    JustSynced("sync_to_install") =>
        \A p \in FilesOf(config) :
            ~NamedExcluded(p) => (p \in DOMAIN install /\ install[p] = config[p])

\* no path named .git, .concierge-backup or .stfolder is copied from the source
\* into the install tree
ExcludedNeverCopied ==
    (fileops # <<>> /\ fileops[Len(fileops)].op = "sync_to_install") =>
        \A p \in DOMAIN orig \cup DOMAIN install :
            (\E i \in 1..Len(p) : p[i] \in {".git", ".concierge-backup", ".stfolder"}) =>
                /\ p \in DOMAIN install <=> p \in DOMAIN orig_install
                /\ p \in DOMAIN install => install[p] = orig_install[p]

\* C16: with the default settings, after a successful sync-to-install of any
\* sequence of deployments the install tree holds exactly the non-excluded part
\* of the source: every source file outside the default exclusions is in
\* install with identical content, install holds no other file, and no path
\* named .git, .concierge-backup or .stfolder is copied into install.
InstallIsExactlySource ==
    /\ SourceIsInstalled
    /\ ExcludedNeverCopied
    /\ JustSynced("sync_to_install") =>
           FilesOf(install) = {p \in FilesOf(config) : ~NamedExcluded(p)}

\* C16 as amended: after a successful sync-to-install the install tree holds
\* at least the non-excluded part of the source, every such file with
\* identical content, beside the files it held before and the source does not
\* have; no path named .git, .concierge-backup or .stfolder is copied.
InstallHoldsSource ==
    /\ SourceIsInstalled
    /\ ExcludedNeverCopied
    /\ JustSynced("sync_to_install") =>
           FilesOf(install) = {p \in FilesOf(config) : ~NamedExcluded(p)}
                                  \cup (FilesOf(orig_install) \ FilesOf(config))
                                  \cup {p \in FilesOf(orig_install) : NamedExcluded(p)}

\* a source with files under each excluded name was synced into an install
\* tree, and its flake.nix arrived
SyncedPastExclusions ==
    /\ JustSynced("sync_to_install")
    /\ {<<".git", "index.lock">>, <<".concierge-backup", "flake.nix-old">>,
        <<".stfolder", "marker">>, <<".gitignore">>, <<"flake.nix">>} \subseteq DOMAIN config
    /\ <<"flake.nix">> \notin DOMAIN orig_install
    /\ <<"flake.nix">> \in DOMAIN install

-----------------------------------------------------------------------------
(* SpecRun: the process runner, called with any command on any child.      *)

MaxRuns == 2       \* most runner calls in a row in SpecRun
MaxExitCode == 2   \* exit codes are 0..MaxExitCode

\* how a child can end: the spawn fails, the wait fails, it exits with a code,
\* or a signal ends it (ExitStatus::code() is None)
ChildOutcomes ==
    {[kind |-> "nospawn", code |-> 0], [kind |-> "nowait", code |-> 0],
     [kind |-> "signal", code |-> 0]}
        \cup {[kind |-> "exit", code |-> c] : c \in 0..MaxExitCode}

RunOk(waited) == [ok |-> TRUE, err |-> "", waited |-> waited]
RunErr(msg, waited) == [ok |-> FALSE, err |-> msg, waited |-> waited]

\* the Debug form {:?} of a Vec<&str>
RECURSIVE DebugItems(_)
DebugItems(items) ==
    IF items = <<>> THEN ""
    ELSE "\"" \o items[1] \o "\"" \o (IF Len(items) = 1 THEN "" ELSE ", ")
             \o DebugItems(Tail(items))

DebugVec(items) == "[" \o DebugItems(items) \o "]"

\* a match that takes every exit code for success
match_exit_code_lenient(command, cargs, outcome) ==
    IF outcome.kind = "exit" THEN RunOk(TRUE)
    ELSE RunErr("Process " \o command \o " with args " \o DebugVec(cargs)
                    \o " was terminated by signal", TRUE)

\* deploy.rs:367-385 and 417-434: match output.code()
match_exit_code(command, cargs, outcome) ==
    IF outcome.kind = "exit" /\ outcome.code = 0 THEN RunOk(TRUE)
    ELSE IF outcome.kind = "exit"
    THEN RunErr("Process " \o command \o " with args " \o DebugVec(cargs)
                    \o " failed with return code " \o ToString(outcome.code), TRUE)
    ELSE RunErr("Process " \o command \o " with args " \o DebugVec(cargs)
                    \o " was terminated by signal", TRUE)

\* deploy.rs:388-435
realtime_command_result(command, cargs, failure_msg, outcome) ==
    IF outcome.kind = "nospawn"
    THEN RunErr("Error spawning process " \o command \o " with args " \o DebugVec(cargs)
                    \o ": " \o failure_msg, FALSE)
    ELSE IF outcome.kind = "nowait"
    THEN RunErr("Failed getting exit status for process " \o command \o " with args "
                    \o DebugVec(cargs), TRUE)
    ELSE match_exit_code(command, cargs, outcome)

\* deploy.rs:328-386: the same, with the child started in dir
realtime_command_in_dir(command, dir, cargs, failure_msg, outcome) ==
    IF outcome.kind = "nospawn"
    THEN RunErr("Error spawning process " \o command \o " with args " \o DebugVec(cargs)
                    \o ": " \o failure_msg, FALSE)
    ELSE IF outcome.kind = "nowait"
    THEN RunErr("Failed getting exit status for process " \o command \o " with args "
                    \o DebugVec(cargs), TRUE)
    ELSE match_exit_code(command, cargs, outcome)

\* the commands, argument lists and directories the runner is called with
RunCommands == {"nix", "sudo"}
RunArgs == {<<>>, <<"nixos-rebuild", "switch">>, <<"flake", "update">>}
RunDirs == {"", ConfigPath}

RunInit ==
    /\ Idle
    /\ config = EmptyTree
    /\ orig = config
    /\ fileops = <<>>

\* one call of realtime_command (dir = "") or realtime_command_in_dir
RunCommand ==
    /\ Len(calls) < MaxRuns
    /\ \E command \in RunCommands, cargs \in RunArgs, dir \in RunDirs,
          outcome \in ChildOutcomes :
           LET r == IF dir = ""
                    THEN realtime_command_result(command, cargs, "failed", outcome)
                    ELSE realtime_command_in_dir(command, dir, cargs, "failed", outcome)
           IN  calls' = Append(calls, [cmd |-> command, args |-> cargs, dir |-> dir,
                                       outcome |-> outcome, result |-> r])
    /\ UNCHANGED <<pc, entry, args, settings, os, nixInstalled, repoStatus, config, install,
                   deployment_time, todo, trace, fileops, error, orig, orig_install>>

RunNext == RunCommand

SpecRun == RunInit /\ [][RunNext]_vars

\* the four kinds of result C17 tells apart, read off the result alone
ResultClass(c) ==
    LET named == "Process " \o c.cmd \o " with args " \o DebugVec(c.args)
    IN  CASE c.result.ok -> "ok"
          [] c.result.err = named \o " failed with return code " \o ToString(c.outcome.code)
                 -> "nonzero"
          [] c.result.err = named \o " was terminated by signal" -> "signal"
          [] ~c.result.waited -> "nospawn"
          [] OTHER -> "other"

\* C17: for every child outcome the runner produces exactly one result: Ok iff
\* the child was spawned and exited with code 0; an error naming the command,
\* the arguments and the code iff it exited nonzero; a distinct error naming
\* command and arguments iff a signal ended it; and an error raised before any
\* wait iff the spawn failed.
RunnerClassifies ==
    \A i \in 1..Len(calls) :
        LET c == calls[i]
        IN  /\ c.result.ok <=> (c.outcome.kind = "exit" /\ c.outcome.code = 0)
            /\ c.result.ok <=> c.result.err = ""
            /\ ResultClass(c) = "nonzero" <=> (c.outcome.kind = "exit" /\ c.outcome.code # 0)
            /\ ResultClass(c) = "signal" <=> c.outcome.kind = "signal"
            /\ ResultClass(c) = "nospawn" <=> c.outcome.kind = "nospawn"
            /\ ~c.result.waited <=> c.outcome.kind = "nospawn"
            /\ \A j \in 1..Len(calls) :
                   (calls[j].cmd = c.cmd /\ calls[j].args = c.args /\ calls[j].dir = c.dir
                        /\ calls[j].outcome # c.outcome /\ "nowait" \notin
                               {calls[j].outcome.kind, c.outcome.kind})
                       => calls[j].result # c.result

\* one command was run twice, in a directory: once it exited with a nonzero
\* code and once a signal ended it
NonzeroAndSignal ==
    /\ Len(calls) = 2
    /\ calls[1].cmd = calls[2].cmd /\ calls[1].args = calls[2].args
    /\ calls[1].dir = ConfigPath /\ calls[2].dir = ConfigPath
    /\ calls[1].outcome = [kind |-> "exit", code |-> 1]
    /\ calls[2].outcome.kind = "signal"

-----------------------------------------------------------------------------
(* SpecStatus: repo_status on any distance between the local and the       *)
(* fetched branch tip.                                                     *)

MaxCommits == 10   \* largest ahead or behind count
MaxQueries == 1    \* most repo_status calls in a row in SpecStatus

\* a classification that takes "no commits ahead" for ahead of the remote
classify_status_loose(ahead, behind) ==
    IF ahead >= 0 /\ behind = 0 THEN "Ahead"
    ELSE IF behind > 0 /\ ahead = 0 THEN "Behind"
    ELSE IF ahead = 0 /\ behind = 0 THEN "Same"
    ELSE "Complex"

\* git.rs:125-133
classify_status(ahead, behind) ==
    IF ahead > 0 /\ behind = 0 THEN "Ahead"
    ELSE IF behind > 0 /\ ahead = 0 THEN "Behind"
    ELSE IF ahead = 0 /\ behind = 0 THEN "Same"
    ELSE "Complex"

StatusInit ==
    /\ Idle
    /\ config = EmptyTree
    /\ orig = config
    /\ fileops = <<>>

\* git.rs:121-133: graph_ahead_behind hands over two counts, which are classified
RepoStatusQuery ==
    /\ Len(calls) < MaxQueries
    /\ \E ahead \in 0..MaxCommits, behind \in 0..MaxCommits :
           /\ repoStatus' = classify_status(ahead, behind)
           /\ calls' = Append(calls, [step |-> "REPO_STATUS", ahead |-> ahead,
                                      behind |-> behind,
                                      status |-> classify_status(ahead, behind)])
    /\ UNCHANGED <<pc, entry, args, settings, os, nixInstalled, config, install,
                   deployment_time, todo, trace, fileops, error, orig, orig_install>>

StatusNext == RepoStatusQuery

SpecStatus == StatusInit /\ [][StatusNext]_vars

\* C18: for every pair of non-negative integers (ahead, behind) exactly one
\* variant is returned: Ahead iff ahead > 0 and behind = 0, Behind iff
\* behind > 0 and ahead = 0, Same iff both are 0, Complex iff both are > 0.
StatusTotality ==
    \A i \in 1..Len(calls) :
        LET c == calls[i]
        IN  /\ c.status \in {"Ahead", "Behind", "Same", "Complex"}
            /\ c.status = "Ahead" <=> (c.ahead > 0 /\ c.behind = 0)
            /\ c.status = "Behind" <=> (c.behind > 0 /\ c.ahead = 0)
            /\ c.status = "Same" <=> (c.ahead = 0 /\ c.behind = 0)
            /\ c.status = "Complex" <=> (c.ahead > 0 /\ c.behind > 0)
            /\ i = Len(calls) => repoStatus = c.status

\* a history that diverged on both sides was classified
DivergedClassified ==
    /\ calls # <<>>
    /\ calls[1].ahead = 2 /\ calls[1].behind = 3
    /\ repoStatus = "Complex"

-----------------------------------------------------------------------------
(* SpecUrl: the comparison of repository URLs.  A URL is a sequence of     *)
(* pieces: "git@", "https://", ":", "/", ".git" and names.                 *)

MaxRemotes == 2    \* most remotes of a repository in SpecUrl

Hosts == {"github.com", "example.com"}
Owners == {"username", "billgates"}
RepoNames == {"repo", "windows"}

\* a repository is a host, an owner and a name
Repos == [host : Hosts, owner : Owners, name : RepoNames]

\* git@host:owner/name.git
SshUrl(r) == <<"git@", r.host, ":", r.owner, "/", r.name, ".git">>

\* https://host/owner/name
HttpsUrl(r) == <<"https://", r.host, "/", r.owner, "/", r.name>>

\* https://host/owner/name.git
HttpsGitUrl(r) == <<"https://", r.host, "/", r.owner, "/", r.name, ".git">>

UrlForms == {"ssh", "https", "https.git"}

UrlOf(r, form) ==
    CASE form = "ssh" -> SshUrl(r)
      [] form = "https" -> HttpsUrl(r)
      [] form = "https.git" -> HttpsGitUrl(r)

\* git_url_parse::normalize_url: the scp-like form user@host:path becomes
\* ssh://user@host/path; a URL with a scheme is parsed as it stands
normalize_url(url) ==
    IF url[1] = "git@" /\ url[3] = ":"
    THEN [scheme |-> "ssh", host |-> url[2], path |-> <<"/">> \o SubSeq(url, 4, Len(url))]
    ELSE [scheme |-> "https", host |-> url[2], path |-> SubSeq(url, 3, Len(url))]

\* str::trim_end_matches: the pattern is taken off the end as often as it stands there
RECURSIVE trim_end_matches(_, _)
trim_end_matches(text, pat) ==
    IF text # <<>> /\ text[Len(text)] = pat
    THEN trim_end_matches(SubSeq(text, 1, Len(text) - 1), pat)
    ELSE text

\* str::trim_start_matches
RECURSIVE trim_start_matches(_, _)
trim_start_matches(text, pat) ==
    IF text # <<>> /\ text[1] = pat THEN trim_start_matches(Tail(text), pat) ELSE text

\* the pieces of a text written one after the other
RECURSIVE Flatten(_)
Flatten(text) == IF text = <<>> THEN "" ELSE text[1] \o Flatten(Tail(text))

\* a normalisation that keeps the .git suffix
normalize_git_url_keep_suffix(url) ==
    LET u == normalize_url(url)
    IN  u.host \o "/" \o Flatten(trim_start_matches(u.path, "/"))

\* git.rs:14-26
normalize_git_url(url) ==
    LET u == normalize_url(url)
        path == trim_start_matches(trim_end_matches(u.path, ".git"), "/")
    IN  u.host \o "/" \o Flatten(path)

\* git.rs:28-33
is_same_repo(a, b) == normalize_git_url(a) = normalize_git_url(b)

\* git.rs:35-41: any remote of the repository is the same repository
repo_has_remote(remotes, remote_url) ==
    \E i \in 1..Len(remotes) : is_same_repo(remotes[i], remote_url)

UrlChoices == [repo : Repos, form : UrlForms]

UrlInit ==
    /\ Idle
    /\ config = EmptyTree
    /\ orig = config
    /\ fileops = <<>>

\* is_same_repo on two URLs
CompareUrls ==
    /\ calls = <<>>
    /\ \E a \in UrlChoices, b \in UrlChoices :
           calls' = <<[step |-> "IS_SAME_REPO", a |-> a, b |-> b,
                       na |-> normalize_git_url(UrlOf(a.repo, a.form)),
                       nb |-> normalize_git_url(UrlOf(b.repo, b.form)),
                       same |-> is_same_repo(UrlOf(a.repo, a.form), UrlOf(b.repo, b.form))]>>
    /\ UNCHANGED <<pc, entry, args, settings, os, nixInstalled, repoStatus, config, install,
                   deployment_time, todo, trace, fileops, error, orig, orig_install>>

\* repo_has_remote on a repository with the given remotes
QueryRemote ==
    /\ calls = <<>>
    /\ \E remotes \in SeqsUpTo({c \in UrlChoices : c.repo.host = "github.com"}, MaxRemotes),
          b \in {c \in UrlChoices : c.repo.host = "github.com" /\ c.repo.owner = "username"} :
           calls' = <<[step |-> "REPO_HAS_REMOTE", remotes |-> remotes, b |-> b,
                       has |-> repo_has_remote(
                                   [i \in 1..Len(remotes) |->
                                        UrlOf(remotes[i].repo, remotes[i].form)],
                                   UrlOf(b.repo, b.form))]>>
    /\ UNCHANGED <<pc, entry, args, settings, os, nixInstalled, repoStatus, config, install,
                   deployment_time, todo, trace, fileops, error, orig, orig_install>>

UrlNext == CompareUrls \/ QueryRemote

SpecUrl == UrlInit /\ [][UrlNext]_vars

\* host/owner/name, spelled out
Canonical(r) == r.host \o "/" \o r.owner \o "/" \o r.name

\* C19: the SSH form git@host:user/repo.git and the HTTPS form
\* https://host/user/repo normalize to the same canonical string
\* host/user/repo; is_same_repo is true for the two forms of one repository and
\* false for two different repositories; repo_has_remote reports a match when
\* any configured remote is the same repository under either form.
UrlEquivalence ==
    \A i \in 1..Len(calls) :
        LET c == calls[i]
        IN  /\ c.step = "IS_SAME_REPO" =>
                   /\ c.na = Canonical(c.a.repo)
                   /\ c.nb = Canonical(c.b.repo)
                   /\ c.same <=> c.a.repo = c.b.repo
            /\ c.step = "REPO_HAS_REMOTE" =>
                   (c.has <=> \E k \in 1..Len(c.remotes) : c.remotes[k].repo = c.b.repo)

\* the SSH form of a repository was held against the HTTPS form of the same
SshMatchedHttps ==
    /\ calls # <<>>
    /\ calls[1].step = "IS_SAME_REPO"
    /\ calls[1].a.form = "ssh" /\ calls[1].b.form = "https"
    /\ calls[1].a.repo = calls[1].b.repo
    /\ calls[1].same
    /\ calls[1].na = "github.com/username/repo"

-----------------------------------------------------------------------------
(* SpecSearch: search_files_with_name on any tree of a small family.       *)

MaxSearches == 1   \* most searches in a row in SpecSearch

TargetName == "target_file.txt"

\* the files a tree of SpecSearch may hold: the target name at three depths and
\* under a directory of the same name, and names that share a part with it
SearchFiles ==
    {<<TargetName>>, <<"subdir1", TargetName>>, <<"subdir1", "deep", TargetName>>,
     <<"subdir2", TargetName, TargetName>>, <<"subdir1", "target_file.txt.bak">>,
     <<"file.txt">>, <<"subdir1", "deep", "other_file.txt">>}

\* the empty directories it may hold, one of them with the target name
SearchDirs == {<<"subdir3">>, <<"subdir2", "more", TargetName>>}

TreeWith(files, dirs) ==
    LET above == UNION {{SubSeq(p, 1, k) : k \in 0..(Len(p) - 1)} : p \in files \cup dirs}
    IN  [p \in above \cup dirs \cup files |-> IF p \in files THEN File(<<"a">>) ELSE Dir]

\* the entries of a directory in the order fs::read_dir hands them over
EntriesOf(tree, dir) == CHOOSE o \in Orders(Children(tree, dir)) : TRUE

\* a loop that looks at the name before it looks at the kind of the entry
RECURSIVE search_entries_name_first(_, _, _)
search_entries_name_first(tree, entries, name) ==
    IF entries = <<>> THEN <<>>
    ELSE LET path == Head(entries)
             found == IF FileName(path) = name THEN <<path>>
                      ELSE IF IsDir(tree, path)
                      THEN search_entries_name_first(tree, EntriesOf(tree, path), name)
                      ELSE <<>>
         IN  found \o search_entries_name_first(tree, Tail(entries), name)

\* deploy.rs:301-318: the Vec the loop over the entries builds, the recursive
\* calls for the directories among them included
RECURSIVE search_entries(_, _, _)
search_entries(tree, entries, name) ==
    IF entries = <<>> THEN <<>>
    ELSE LET path == Head(entries)
             found == IF IsDir(tree, path)
                      THEN search_entries(tree, EntriesOf(tree, path), name)
                      ELSE IF IsFile(tree, path) /\ FileName(path) = name THEN <<path>>
                      ELSE <<>>
         IN  found \o search_entries(tree, Tail(entries), name)

SearchInit ==
    /\ Idle
    /\ \E files \in SUBSET SearchFiles, dirs \in SUBSET SearchDirs :
           config = TreeWith(files, dirs)
    /\ orig = config
    /\ fileops = <<>>

\* one call of search_files_with_name(root, name); todo takes the Vec returned
SearchFilesWithName ==
    /\ Len(calls) < MaxSearches
    /\ \E root \in {p \in DOMAIN config : IsDir(config, p) /\ Len(p) <= 1},
          name \in {TargetName, "file.txt"} :
           \E entries \in Orders(Children(config, root)) :
               /\ todo' = search_entries(config, entries, name)
               /\ calls' = Append(calls, [step |-> "SEARCH", root |-> root, name |-> name])
    /\ UNCHANGED <<pc, entry, args, settings, os, nixInstalled, repoStatus, config, install,
                   deployment_time, trace, fileops, error, orig, orig_install>>

SearchNext == SearchFilesWithName

SpecSearch == SearchInit /\ [][SearchNext]_vars

LastSearch == calls[Len(calls)]

\* the regular files below root whose last component is the name
Matching(tree, root, name) ==
    {p \in DOMAIN tree :
        /\ tree[p].kind = "file"
        /\ Len(p) > Len(root)
        /\ SubSeq(p, 1, Len(root)) = root
        /\ p[Len(p)] = name}

\* C20: for every finite directory tree and target name search_files_with_name
\* returns exactly the regular files at any depth whose file name equals the
\* target name: each once, none whose name only contains the target, and no
\* directories.
SearchIsExact ==
    calls # <<>> =>
        /\ SeqRange(todo) = Matching(config, LastSearch.root, LastSearch.name)
        /\ \A i, j \in 1..Len(todo) : todo[i] = todo[j] => i = j
        /\ \A i \in 1..Len(todo) :
               /\ config[todo[i]].kind = "file"
               /\ todo[i][Len(todo[i])] = LastSearch.name

\* a search from the root found the target at three depths, once under a
\* directory with the target's name, beside a file whose name contains it
FoundAtAllDepths ==
    /\ calls # <<>>
    /\ LastSearch.root = <<>>
    /\ LastSearch.name = TargetName
    /\ Len(todo) = 4
    /\ <<"subdir2", TargetName, TargetName>> \in SeqRange(todo)
    /\ <<"subdir1", "target_file.txt.bak">> \in DOMAIN config
    /\ <<"subdir2", "more", TargetName>> \in DOMAIN config

-----------------------------------------------------------------------------
(* Claims about the trees a deployment leaves.                             *)

\* every lock file of the install tree is in the source tree, at the same
\* relative path and with the same content
LocksAgree(source, destination) ==
    \A p \in LockFilesOf(destination) :
        p \in DOMAIN source /\ source[p] = destination[p]

\* C21: starting from a source and an install tree that agree on their lock
\* files, whenever a deployment ends, successfully or by failing at any step, a
\* build failure after a successful global update included, every lock file of
\* the install tree has the content of the lock file at the same relative path
\* of the source tree.
LocksConsistentAtEnd ==
    (Ended /\ LocksAgree(orig, orig_install)) => LocksAgree(config, install)

-----------------------------------------------------------------------------
(* SpecRerun: the deployment run again on the trees the run before left,   *)
(* with the same settings and no flag set.                                 *)

MaxReruns == 1

RerunMark == Call("RERUN", "", <<>>, "", "exit0")

Reruns == Cardinality(CallsAt("RERUN"))

RerunInit == Init /\ NoFlags

\* deploy.rs:19-25: deploy_nix_configuration is called again; the trees are as
\* the ended run left them, the call's locals are fresh
Rerun ==
    /\ pc \in {"done", "failed"}
    /\ Reruns < MaxReruns
    /\ pc' = "deploy_start"
    /\ calls' = Append(calls, RerunMark)
    /\ trace' = Append(trace, "RERUN")
    /\ error' = <<>>
    /\ todo' = <<>>
    /\ Static
    /\ UNCHANGED <<settings, nixInstalled, config, install, deployment_time, fileops>>

RerunNext == Next \/ Rerun

SpecRerun == RerunInit /\ [][RerunNext]_vars

\* the run (0 for the first) that made call i
RunOf(i) == Cardinality({j \in CallsAt("RERUN") : j < i})

RECURSIVE ConvertDirsFrom(_, _)
ConvertDirsFrom(run, i) ==
    IF i > Len(calls) THEN <<>>
    ELSE (IF calls[i].step = "CONVERT_SERVICES" /\ RunOf(i) = run
          THEN <<calls[i].dir>> ELSE <<>>) \o ConvertDirsFrom(run, i + 1)

\* the directories a run handed to a conversion command, in the order of the calls
ConvertDirs(run) == ConvertDirsFrom(run, 1)

IsPrefix(s, t) == Len(s) <= Len(t) /\ SubSeq(t, 1, Len(s)) = s

\* read_dir gave this run the directories in the order it gave them to the
\* runs before it
SameReadDirOrder ==
    \A run \in 0..(Reruns - 1) : IsPrefix(ConvertDirs(run), ConvertDirs(Reruns))

\* the directories the default converter has converted in this run
ConvertedNow ==
    {calls[i].dir : i \in {j \in CallsAt("CONVERT_SERVICES") :
                               /\ RunOf(j) = Reruns
                               /\ calls[j].cmd = "compose2nix"
                               /\ calls[j].outcome = "exit0"}}

RECURSIVE ConvertedAll(_, _)
ConvertedAll(tree, dirs) ==
    IF dirs = {} THEN tree
    ELSE LET d == CHOOSE x \in dirs : TRUE
         IN  ConvertedAll(Converted(tree, d), dirs \ {d})

\* the trees a deployment without flags leaves when it succeeds at once on the
\* trees the first run started from
DeployedSource ==
    LET source == ConvertedAll(orig, ConvertedNow)
        installed == LockIfMissing(SyncToInstallTree(source, orig_install))
    IN  SyncBackTree(installed, source)

DeployedInstall ==
    LockIfMissing(SyncToInstallTree(ConvertedAll(orig, ConvertedNow), orig_install))

\* C22: with no flag set, no change to the source between the runs and
\* deterministic tools, a deployment that succeeds after an earlier run, which
\* itself succeeded or failed at any step, leaves the source and the install tree
\* exactly as a deployment that succeeded at once leaves them: a second run
\* after a successful one changes nothing.
RerunIdempotent ==
    (pc = "done" /\ SameReadDirOrder) =>
        /\ config = DeployedSource
        /\ install = DeployedInstall

\* a run that succeeds after one that failed at the build, with a converter at work
RerunAfterFailedBuild ==
    /\ pc = "done"
    /\ Reruns = 1
    /\ SameReadDirOrder
    /\ \E i \in CallsAt("BUILD_AND_APPLY") : RunOf(i) = 0 /\ calls[i].outcome # "exit0"
    /\ ConvertedNow # {}

\* a second run after a successful one
RerunAfterSuccess ==
    /\ pc = "done"
    /\ Reruns = 1
    /\ SameReadDirOrder
    /\ \E i \in CallsAt("SYNC_LOCKSTATE_BACK") : RunOf(i) = 0 /\ calls[i].outcome = "exit0"
    /\ ConvertedNow # {}


IsBelow(p, dir) == Len(p) > Len(dir) /\ SubSeq(p, 1, Len(dir)) = dir

\* the docker-compose.yml files of the source tree the run started from
ServiceDefinitions == {p \in DOMAIN orig : IsFile(orig, p) /\ FileName(p) = ComposeName}

HostServiceDefinitions == {p \in ServiceDefinitions : IsBelow(p, HostDir)}

\* the paths of the docker-compose.yml files the run has tagged
TaggedServiceDefinitions ==
    {fileops[i].path : i \in {j \in 1..Len(fileops) :
                                  /\ fileops[j].op = "tag" /\ fileops[j].ok
                                  /\ FileName(fileops[j].path) = ComposeName}}

\* C23: when update is requested, the files the service tagging step tags are
\* exactly the docker-compose.yml files under systems/<hostname> of the source:
\* the docker-compose.yml files of other hosts and elsewhere in the source are
\* left as they were; when update is not requested no docker-compose.yml is
\* modified.
TagsOnlyThisHost ==
    /\ ("TAG_SERVICES" \in StepsEntered /\ pc # "failed") =>
           TaggedServiceDefinitions = HostServiceDefinitions
    /\ \A p \in ServiceDefinitions \ HostServiceDefinitions :
           p \in DOMAIN config /\ config[p] = orig[p]
    /\ ~settings.update =>
           \A p \in ServiceDefinitions : p \in DOMAIN config /\ config[p] = orig[p]


\* the directories under systems/<hostname> that hold a docker-compose.yml
ServiceDirs == {Parent(p) : p \in HostServiceDefinitions}

ConversionsIn(dir) ==
    {i \in CallsAt("CONVERT_SERVICES") : calls[i].dir = dir}

\* deploy.rs:238-277: the command the loop runs in a directory
ExpectedConversion(dir) ==
    LET path_d2ccmd == Join2(dir, ".compose2nix")
        contents == IF Exists(orig, path_d2ccmd)
                    THEN split_whitespace(orig[path_d2ccmd].data, "") ELSE <<>>
    IN  IF contents # <<>>
        THEN [cmd |-> Head(contents), args |-> Tail(contents)]
        ELSE [cmd |-> "compose2nix", args |-> <<"-project", FileName(dir)>>]

\* C24: once the converter step has completed, in every directory under
\* systems/<hostname> that holds a docker-compose.yml exactly one conversion
\* command has run in that directory: the whitespace-split command of its
\* .compose2nix file if that file exists and is not empty, `compose2nix -project
\* <dirname>` otherwise; a custom command in one directory does not keep the
\* other directories from being converted.
EveryDirectoryConverted ==
    ("CONVERT_SERVICES" \in StepsEntered /\ pc \notin {"convert", "convert_loop", "failed"}) =>
        \A dir \in ServiceDirs :
            /\ Cardinality(ConversionsIn(dir)) = 1
            /\ \A i \in ConversionsIn(dir) :
                   /\ calls[i].cmd = ExpectedConversion(dir).cmd
                   /\ calls[i].args = ExpectedConversion(dir).args

-----------------------------------------------------------------------------
(* SpecTagWrite: one call of tag_file_content, statement by statement,      *)
(* with the failures of each statement and the process being interrupted.   *)

TagWriteInit ==
    /\ pc = "tag_check"
    /\ args = NoArgs
    /\ settings = NoSettings
    /\ os = "nixos"
    /\ entry = "none"
    /\ nixInstalled = TRUE
    /\ repoStatus = "Same"
    /\ install = EmptyTree
    /\ deployment_time \in Timestamps
    /\ todo = <<>>
    /\ trace = <<>>
    /\ calls = <<>>
    /\ error = <<>>
    /\ orig_install = EmptyTree
    /\ \E node \in {File(text) : text \in SeqsUpTo(Symbols, MaxLen)} \cup {Dir} :
           config = Put(EmptyTree, FlakeNix, node)
    /\ orig = config
    /\ fileops = <<>>

TagWriteFrame ==
    UNCHANGED <<entry, args, settings, os, nixInstalled, repoStatus, install,
                deployment_time, trace, calls, fileops, orig, orig_install>>

\* deploy.rs:440-445
TagCheck ==
    /\ pc = "tag_check"
    /\ LET isf == path_is_file(config, FlakeNix)
       IN  IF isf.ok /\ isf.value
           THEN pc' = "tag_read" /\ UNCHANGED error
           ELSE /\ pc' = "tag_failed"
                /\ error' = <<"Failed to write re-evaluation timestamp, path is not a file">>
    /\ UNCHANGED <<config, todo>>
    /\ TagWriteFrame

\* deploy.rs:449-467: the file is read and the new content is made in memory
TagRead ==
    /\ pc = "tag_read"
    /\ \E read \in BOOLEAN :
           IF read
           THEN /\ todo' = TaggedText(config[FlakeNix].data, deployment_time)
                /\ pc' = "tag_create"
                /\ UNCHANGED error
           ELSE /\ pc' = "tag_failed"
                /\ error' = <<"Failed to read file contents">>
                /\ UNCHANGED todo
    /\ UNCHANGED config
    /\ TagWriteFrame

\* deploy.rs:464-465: File::create opens the path itself and truncates it
TagCreate ==
    /\ pc = "tag_create"
    /\ \E created \in BOOLEAN :
           IF created
           THEN /\ config' = Put(config, FlakeNix, File(<<>>))
                /\ pc' = "tag_write"
                /\ UNCHANGED error
           ELSE /\ pc' = "tag_failed"
                /\ error' = <<"Failed to create file">>
                /\ UNCHANGED config
    /\ UNCHANGED todo
    /\ TagWriteFrame

\* deploy.rs:469-476: write_all writes until all is written or a write fails
TagWrite ==
    /\ pc = "tag_write"
    /\ \E written \in 0..Len(todo) :
           /\ config' = Put(config, FlakeNix, File(SubSeq(todo, 1, written)))
           /\ IF written = Len(todo)
              THEN pc' = "tag_flush" /\ UNCHANGED error
              ELSE pc' = "tag_failed" /\ error' = <<"Failed to write content to file">>
    /\ UNCHANGED todo
    /\ TagWriteFrame

\* deploy.rs:478-482: flush of a std::fs::File does nothing and returns Ok
TagFlush ==
    /\ pc = "tag_flush"
    /\ pc' = "tag_done"
    /\ UNCHANGED <<config, todo, error>>
    /\ TagWriteFrame

\* the process is ended between two statements of tag_file_content
TagInterrupt ==
    /\ pc \in {"tag_read", "tag_create", "tag_write", "tag_flush"}
    /\ pc' = "tag_killed"
    /\ UNCHANGED <<config, todo, error>>
    /\ TagWriteFrame

TagWriteNext ==
    \/ TagCheck
    \/ TagRead
    \/ TagCreate
    \/ TagWrite
    \/ TagFlush
    \/ TagInterrupt

SpecTagWrite == TagWriteInit /\ [][TagWriteNext]_vars

\* C25: if tag_file_content fails or is interrupted at any point (the path is
\* no regular file, the read, the create, the write or the flush fails), the
\* file holds its complete previous content or the complete new content, never
\* an empty or partial one.
TagRewriteAtomic ==
    (pc \in {"tag_failed", "tag_killed"} /\ IsFile(orig, FlakeNix)) =>
        /\ IsFile(config, FlakeNix)
        /\ config[FlakeNix].data \in
               {orig[FlakeNix].data, TaggedText(orig[FlakeNix].data, deployment_time)}

\* a call that runs to its end leaves what tag_file_content computes
TagWriteAgrees ==
    pc = "tag_done" => config = tag_file_content(orig, FlakeNix, deployment_time).tree


ManifestBackupFailed ==
    \E i \in 1..Len(fileops) :
        fileops[i].op = "backup" /\ fileops[i].path = FlakeNix /\ ~fileops[i].ok

\* C26: with force_evaluation the manifest is tagged only after its backup has
\* succeeded in the same run; if backup_file fails, flake.nix is left as it was,
\* the run ends in an error whose context is 'Failed to backup flake.nix before
\* tagging', and no later step (converter, tagging, update, sync, build,
\* sync-back) is performed.
BackupGatesManifestTag ==
    /\ \A i \in 1..Len(fileops) :
           (fileops[i].op = "tag" /\ fileops[i].path = FlakeNix) =>
               \E j \in 1..(i - 1) :
                   fileops[j].op = "backup" /\ fileops[j].path = FlakeNix /\ fileops[j].ok
    /\ ManifestBackupFailed =>
           /\ settings.force_evaluation
           /\ config[FlakeNix] = orig[FlakeNix]
           /\ pc = "failed"
           /\ error # <<>>
           /\ Head(error) = "Failed to backup flake.nix before tagging"
           /\ trace = <<"MANIFEST_CHECK", "BACKUP_AND_TAG_MANIFEST">>
           /\ calls = <<>>
           /\ install = orig_install
           /\ \A i \in 1..Len(fileops) : fileops[i].op # "tag"

\* the backup of a regular flake.nix failed and the run stopped
ManifestBackupRefused ==
    /\ ManifestBackupFailed
    /\ IsFile(orig, FlakeNix)
    /\ pc = "failed"


SyncedToInstall ==
    \E i \in CallsAt("SYNC_TO_INSTALL") : calls[i].outcome = "exit0"

LastLine(text) == Lines(text)[Len(Lines(text))]

\* C27: in every run with force_evaluation in which the sync to install has
\* succeeded, flake.nix of the install tree is the tagged flake.nix of the
\* source, whose last line is the '# TAGGED:' line with the deployment timestamp
\* of this run; the builder is invoked only after that sync.
InstallHoldsTaggedManifest ==
    /\ (settings.force_evaluation /\ SyncedToInstall) =>
           /\ IsFile(config, FlakeNix) /\ IsFile(install, FlakeNix)
           /\ install[FlakeNix].data = config[FlakeNix].data
           /\ install[FlakeNix].data = TaggedText(orig[FlakeNix].data, deployment_time)
           /\ LastLine(install[FlakeNix].data) = TagLine(deployment_time)
    /\ \A i \in CallsAt("BUILD_AND_APPLY") :
           \E j \in CallsAt("SYNC_TO_INSTALL") : j < i /\ calls[j].outcome = "exit0"

\* the builder has run on an install tree that was stale before the sync
BuiltFromTaggedManifest ==
    /\ settings.force_evaluation
    /\ SyncedToInstall
    /\ CallsAt("BUILD_AND_APPLY") # {}
    /\ IsFile(orig_install, FlakeNix)
    /\ install[FlakeNix].data # orig_install[FlakeNix].data


\* C28: if Nix is not installed and the installer that install_nix launches
\* exits with a nonzero code or is ended by a signal, install_nix returns an
\* error and main stops: the settings are not initialised and the deployment is
\* not started.
InstallerFailureStops ==
    (\E i \in CallsAt("INSTALL_NIX") : calls[i].outcome \in {"exit1", "signal"}) =>
        /\ pc = "failed"
        /\ error # <<>> /\ Head(error) = "Error installing Nix."
        /\ settings = NoSettings
        /\ trace = <<>>

-----------------------------------------------------------------------------
(* SpecRepo: deploy_config_repo called on a target path, once and again.    *)

MaxRepoCalls == 2

\* the repository that is asked for, and another one
WantedRepo == [host |-> "github.com", owner |-> "username", name |-> "repo"]
OtherRepo == [host |-> "github.com", owner |-> "billgates", name |-> "windows"]

\* the values of the parameter repo_url: Url
RepoUrls == {HttpsUrl(WantedRepo), HttpsGitUrl(WantedRepo)}

\* what is at target_path: nothing, a regular file, an empty directory, a
\* directory with files that is no repository, such a directory inside the
\* working tree of a repository, or a repository.  Of a repository: the URLs of
\* its remotes, whether one of them is named origin, its local branches, its
\* references, the branches origin offers, whether the working tree is clean, and
\* the commits ahead of and behind the remote branch.
Target(kind) ==
    [kind |-> kind, remotes |-> <<>>, origin |-> FALSE, branches |-> {}, refs |-> {},
     upstream |-> {}, clean |-> TRUE, ahead |-> 0, behind |-> 0]

BranchNames == {"main", "origin"}

\* Repository::clone: the remote origin, and the remote's default branch checked out
Cloned(repo_url, default) ==
    [kind |-> "repo", remotes |-> <<repo_url>>, origin |-> TRUE, branches |-> {default},
     refs |-> {"refs/heads/" \o default, "refs/remotes/origin/" \o default},
     upstream |-> {default}, clean |-> TRUE, ahead |-> 0, behind |-> 0]

RemoteLists ==
    {<<>>, <<SshUrl(WantedRepo)>>, <<HttpsUrl(WantedRepo)>>, <<HttpsUrl(OtherRepo)>>,
     <<HttpsUrl(OtherRepo), HttpsGitUrl(WantedRepo)>>}

\* the repositories a call may find at the target
ExistingRepos ==
    {[kind |-> "repo", remotes |-> rs, origin |-> rs # <<>>, branches |-> bs,
      refs |-> {"refs/heads/" \o b : b \in bs} \cup extra,
      upstream |-> {"main"}, clean |-> clean, ahead |-> ahead, behind |-> behind] :
        rs \in RemoteLists, bs \in {{"main"}, {"main", "origin"}},
        extra \in {{}, {"origin/origin"}}, clean \in BOOLEAN,
        ahead \in 0..1, behind \in 0..1}

Targets ==
    {Target(k) : k \in {"absent", "file", "empty", "files", "inside_repo"}}
        \cup ExistingRepos

\* what the calls of one deploy_config_repo meet: whether the directory can be
\* created, whether the clone succeeds and which branch the remote has as its
\* default, whether the fetch succeeds
RepoEnvs == [mkdir : BOOLEAN, clone : BOOLEAN, default : BranchNames, fetch : BOOLEAN]

\* a test that takes every directory for empty
is_directory_empty_any(target) ==
    IF target.kind \in {"absent", "file"} THEN [ok |-> FALSE, value |-> FALSE]
    ELSE [ok |-> TRUE, value |-> TRUE]

\* fs.rs:4-7: read_dir fails on what is no directory
is_directory_empty(target) ==
    IF target.kind \in {"absent", "file"} THEN [ok |-> FALSE, value |-> FALSE]
    ELSE [ok |-> TRUE, value |-> target.kind = "empty"]

\* git.rs:43-45: Repository::discover looks at the path and at its ancestors
is_git_repo(target) == target.kind \in {"repo", "inside_repo"}

\* git.rs:47-62: Repository::open looks at the path only
get_repo_remote_urls(target) ==
    IF target.kind = "repo" THEN [ok |-> TRUE, urls |-> target.remotes]
    ELSE [ok |-> FALSE, urls |-> <<>>]

\* git.rs:64-75
is_working_tree_clean(target) == target.clean

\* git.rs:84-134: the remote named origin is fetched for the one branch, the
\* local branch and the reference "origin/<branch_name>" are looked up, and the
\* counts of graph_ahead_behind are classified
repo_status(target, branch_name, fetch) ==
    LET fetched == [target EXCEPT !.refs =
                        IF branch_name \in target.upstream
                        THEN @ \cup {"refs/remotes/origin/" \o branch_name} ELSE @]
    IN  IF ~target.origin
        THEN [ok |-> FALSE, target |-> target, err |-> "Failed to get remote 'origin'",
              status |-> ""]
        ELSE IF ~fetch
        THEN [ok |-> FALSE, target |-> target, err |-> "Failed to fetch updates",
              status |-> ""]
        ELSE IF branch_name \notin fetched.branches
        THEN [ok |-> FALSE, target |-> fetched, err |-> "Failed to get local branch",
              status |-> ""]
        ELSE IF ("origin/" \o branch_name) \notin fetched.refs
        THEN [ok |-> FALSE, target |-> fetched, err |-> "Failed to find reference",
              status |-> ""]
        ELSE [ok |-> TRUE, target |-> fetched, err |-> "",
              status |-> classify_status(fetched.ahead, fetched.behind)]


RepoResult(result, err, target, cloned) ==
    [result |-> result, err |-> err, target |-> target, cloned |-> cloned]

\* config.rs:19-26: the closure clone_repo, called on an empty directory
clone_repo(repo_url, env) ==
    IF env.clone THEN RepoResult("Ok", "", Cloned(repo_url, env.default), TRUE)
    ELSE RepoResult("Err", "Failed cloning repository", Target("empty"), TRUE)

\* config.rs:18-105
deploy_config_repo(target, repo_url, env) ==
    IF target.kind = "absent"
    THEN IF ~env.mkdir
         THEN RepoResult("Err", "Failed creating dir for config repo", target, FALSE)
         ELSE clone_repo(repo_url, env)
    ELSE LET empty == is_directory_empty(target)
             urls == get_repo_remote_urls(target)
             st == repo_status(target, "origin", env.fetch)
         IN  IF ~empty.ok THEN RepoResult("Err", "read_dir failed", target, FALSE)
             ELSE IF empty.value THEN clone_repo(repo_url, env)
             ELSE IF ~is_git_repo(target)
             THEN RepoResult("Err", "Target config dir is not a git repo and is not empty",
                             target, FALSE)
             ELSE IF ~urls.ok
             THEN RepoResult("Err", "Failed to get repo remote URLs", target, FALSE)
             ELSE IF ~repo_has_remote(urls.urls, repo_url)
             THEN RepoResult("Err",
                      "Target config dir is a git repo but does not have expected remote",
                      target, FALSE)
             ELSE IF ~is_working_tree_clean(target)
             THEN RepoResult("Panic", "not yet implemented: Run deployment.", target, FALSE)
             ELSE IF ~st.ok
             THEN RepoResult("Err", "Failed to get repo status for repo", st.target, FALSE)
             ELSE IF st.status = "Behind"
             THEN RepoResult("Panic", "not yet implemented: Pull latest changes from remote",
                             st.target, FALSE)
             ELSE IF st.status = "Complex"
             THEN RepoResult("Err", "Repo has complex status", st.target, FALSE)
             ELSE RepoResult("Ok", "", st.target, FALSE)

RepoInit ==
    /\ pc = "repo"
    /\ args \in [target_path : {ConfigPath}, repo_url : RepoUrls]
    /\ config \in Targets
    /\ orig = config
    /\ settings = NoSettings
    /\ os = "nixos"
    /\ entry = "none"
    /\ nixInstalled = TRUE
    /\ repoStatus = "Same"
    /\ install = EmptyTree
    /\ deployment_time = 0
    /\ todo = <<>>
    /\ trace = <<>>
    /\ calls = <<>>
    /\ fileops = <<>>
    /\ error = <<>>
    /\ orig_install = EmptyTree

\* one call of deploy_config_repo(target_path, repo_url)
DeployConfigRepo ==
    /\ pc = "repo"
    /\ Len(calls) < MaxRepoCalls
    /\ \E env \in RepoEnvs :
           LET r == deploy_config_repo(config, args.repo_url, env)
           IN  /\ config' = r.target
               /\ calls' = Append(calls,
                      [step |-> "DEPLOY_CONFIG_REPO", result |-> r.result,
                       cloned |-> r.cloned, before |-> config, after |-> r.target,
                       env |-> env])
               /\ error' = IF r.result = "Ok" THEN <<>> ELSE <<r.err>>
               /\ pc' = IF r.result = "Panic" THEN "panicked" ELSE "repo"
    /\ UNCHANGED <<entry, args, settings, os, nixInstalled, repoStatus, install,
                   deployment_time, todo, trace, fileops, orig, orig_install>>

RepoNext == DeployConfigRepo

SpecRepo == RepoInit /\ [][RepoNext]_vars

HasExpectedRemote(target) ==
    target.kind = "repo" /\ repo_has_remote(target.remotes, args.repo_url)

\* C29: a call that follows at once a call that cloned successfully, with the
\* same arguments, returns Ok and leaves the repository as it is; in general a
\* call on a target that is a repository with the expected remote does nothing
\* to it.
RepoCallIdempotent ==
    \A i \in 1..Len(calls) :
        /\ (i > 1 /\ calls[i - 1].cloned /\ calls[i - 1].result = "Ok") =>
               /\ calls[i].result = "Ok"
               /\ calls[i].after = calls[i].before
        /\ HasExpectedRemote(calls[i].before) =>
               /\ calls[i].after.branches = calls[i].before.branches
               /\ calls[i].after.clean = calls[i].before.clean
               /\ ~calls[i].cloned


\* the target is no repository with a remote that matches repo_url, and is not empty
Unfit(target) ==
    \/ target.kind \in {"files", "inside_repo"}
    \/ target.kind = "repo" /\ ~repo_has_remote(target.remotes, args.repo_url)

RefusedUnfit(c) ==
    Unfit(c.before) => (c.result = "Err" /\ ~c.cloned /\ c.after = c.before)

RepoCallNeverCrashes ==
    /\ pc # "panicked"
    /\ \A i \in 1..Len(calls) :
           HasExpectedRemote(calls[i].before) =>
               /\ calls[i].result \in {"Ok", "Err"}
               /\ (/\ calls[i].before.clean
                   /\ classify_status(calls[i].before.ahead, calls[i].before.behind)
                          = "Complex") => calls[i].result = "Err"

\* C32: after a deployment that has reached its end without an error, every
\* file matching '*.lock' of the install tree, the lock file a global update
\* has rewritten in particular, is in the source tree at the same relative path
\* with the same content.
LocksBroughtBackWhenDone ==
    pc = "done" => LocksAgree(config, install)

\* a run with a global update has ended and the rewritten lock file is in the source
RelockedAndDone ==
    /\ pc = "done"
    /\ settings.update
    /\ IsFile(install, FlakeLock) /\ install[FlakeLock].data = LockV2
    /\ IsFile(orig, FlakeLock) /\ orig[FlakeLock].data = LockV1
    /\ config[FlakeLock].data = LockV2

====
